---- MODULE Spec2Model ----
(***************************************************************************)
(* Verification model of OpenManus' core:                                  *)
(*   - BaseAgent (src/app/agent/base.py): the guarded state transition,    *)
(*     the bounded step loop of run, update_memory and is_stuck;           *)
(*   - PlanningFlow (src/app/flow/planning.py): execute, plan creation,    *)
(*     step selection, executor selection, step execution, finalization;   *)
(*   - LLM (src/app/llm.py): the token budget of a binding and a call of   *)
(*     ask, ask_with_images or ask_tool with the attempts the retry layer  *)
(*     makes of it; TokenCounter.count_image and format_messages;          *)
(*   - the storage rendering of a plan                                     *)
(*     (PlanningFlow._generate_plan_text_from_storage).                    *)
(* run and execute are coroutines: they are split into actions at the      *)
(* awaits where another coroutine's progress is observed (step(), the      *)
(* sandbox cleanup, the executor's run, the provider call and the wait     *)
(* between attempts); the outcomes of the external collaborators (the      *)
(* provider, the planning tool) are inputs of the action that consumes     *)
(* them.                                                                   *)
(***************************************************************************)
EXTENDS Integers, Sequences, FiniteSets, TLC

\* ------------------------------------------------------------------------
\* Bounds of the model (not program constants)
\* ------------------------------------------------------------------------
\* largest max_steps an agent is configured with
MaxSteps == 2
\* number of run calls an outside caller makes on one agent
MaxRuns == 2
\* number of messages beyond which step() stops adding messages to Memory
MaxMem == 3
\* number of iterations of execute's main loop that are explored
MaxIters == 4
\* number of gateway calls one caller makes
MaxCalls == 2
\* largest token count of a request's messages
MaxTokens == 2
\* largest token count of a completion
MaxCompletion == 1
\* the larger of the two configured values of max_input_tokens (the smaller
\* is MaxTokens, which a request with tools exceeds on its own)
MaxBudget == 5

\* ------------------------------------------------------------------------
\* Program constants
\* ------------------------------------------------------------------------
duplicate_threshold == 2
TitleMax == 50
\* stop_after_attempt(6)
max_attempt_number == 6

AgentState == {"IDLE", "RUNNING", "FINISHED", "ERROR"}

\* keys of the agent registry; SoloAgents are the agents driven directly
AgentKeys == {"a", "b"}
SoloAgents == {"a"}

\* roles update_memory accepts, and the roles callers try
message_map == {"user", "system", "assistant", "tool"}
Roles == message_map \cup {"function"}

\* contents of messages; "" is the empty (falsy) content
Contents == {"", "x"}
\* the request of run: "" stands for None and for the empty string
Requests == {"", "x"}
\* text results of step()
StepResults == {"ok"}
\* messages of the exceptions step() raises
StepErrors == {"boom"}

VARIABLES
    state,            \* BaseAgent.state, per agent
    current_step,     \* BaseAgent.current_step
    max_steps,        \* BaseAgent.max_steps
    memory,           \* BaseAgent.memory.messages
    stuck_prompts,    \* number of stuck prompts prepended to next_step_prompt
    previous_state,   \* local previous_state of state_context
    results,          \* local results of run
    pc,               \* position of the agent's run coroutine
    outcome,          \* how the last run call ended
    cleanups,         \* SANDBOX_CLIENT.cleanup calls made by the last run call
    steps_run,        \* step() invocations made by the last run call
    runs,             \* run calls made so far by the outside caller
    finished_in_run,  \* step() set FINISHED during the last run call
    entry_step,       \* current_step when the last run call was made
    agents,           \* keys of BaseFlow.agents
    primary,          \* key of BaseFlow.primary_agent, or NoAgent
    executor_keys,    \* PlanningFlow.executor_keys
    plans,            \* PlanningTool.plans: plan id -> plan data
    current_step_index, \* PlanningFlow.current_step_index, or None
    input_text,       \* argument of execute
    executor,         \* local executor of execute
    result,           \* local result of execute
    fpc,              \* position of the execute coroutine
    flow_outcome,     \* how execute ended
    iters,            \* selections made by execute's main loop
    executed,         \* step indices handed to an executor's run, in order
    finalized,        \* number of _finalize_plan calls
    plan_source,      \* where _create_initial_plan took the stored plan from
    summary_ask,      \* how llm.ask ended in _finalize_plan: "none", "ok", "failed"
    response,         \* local response of _create_initial_plan
    escaped,          \* message of the exception that reached execute's handler
    um_last,          \* the last update_memory call of an outside caller, per agent
    total_input_tokens,      \* LLM.total_input_tokens of the binding
    total_completion_tokens, \* LLM.total_completion_tokens
    max_input_tokens, \* LLM.max_input_tokens, or NoLimit
    lpc,              \* position of a gateway call, per caller
    req,              \* arguments of the gateway call
    attempt,          \* attempts of the call's body started so far
    provider_calls,   \* provider requests made by the call
    transient,        \* attempts of the call that ended in a transport error
    last_err,         \* exception raised by the latest attempt
    last_resp,        \* provider reply received by the latest attempt
    call_outcome,     \* how the gateway call ended
    in_at_call,       \* total_input_tokens when the call was made
    out_at_call,      \* total_completion_tokens when the call was made
    calls_made,       \* gateway calls made so far, per caller
    count_in,         \* image item handed to TokenCounter.count_image
    count_out,        \* what count_image returned or raised
    render_in,        \* planning_tool.plans read by the storage rendering
    render_out,       \* text _generate_plan_text_from_storage returned
    format_in,        \* messages and supports_images given to format_messages
    format_out        \* what format_messages returned or raised

agentVars == <<state, current_step, max_steps, memory, stuck_prompts,
               previous_state, results, pc, outcome, cleanups, steps_run, runs,
               finished_in_run, entry_step>>

flowVars == <<agents, primary, executor_keys, plans, current_step_index,
              input_text, executor, result, fpc, flow_outcome, iters, executed,
              finalized, plan_source, summary_ask, response, escaped>>

llmVars == <<total_input_tokens, total_completion_tokens, max_input_tokens, lpc,
             req, attempt, provider_calls, transient, last_err, last_resp,
             call_outcome, in_at_call, out_at_call, calls_made>>

fnVars == <<count_in, count_out, render_in, render_out, format_in, format_out>>

vars == <<agentVars, flowVars, um_last, llmVars, fnVars>>

\* what the agent's run and the flow's execute leave alone
restFrame == UNCHANGED <<um_last, llmVars, fnVars>>

\* ------------------------------------------------------------------------
\* Values
\* ------------------------------------------------------------------------
Msg(role, content) == [role |-> role, content |-> content]

\* one line of run's result log
Line(kind, n, r) == [kind |-> kind, n |-> n, r |-> r]
StepLine(n, r) == Line("Step", n, r)
TerminatedLine(m) == Line("Terminated", m, "")
NoStepsExecuted == <<Line("NoSteps", 0, "")>>

NoErr == [type |-> "", arg |-> ""]
Err(type, arg) == [type |-> type, arg |-> arg]
NoOutcome == [kind |-> "none", value |-> <<>>, err |-> NoErr]
Returned(v) == [kind |-> "returned", value |-> v, err |-> NoErr]
Raised(e) == [kind |-> "raised", value |-> <<>>, err |-> e]

\* ------------------------------------------------------------------------
\* BaseAgent helpers
\* ------------------------------------------------------------------------
\* Memory.add_message: append at the end
add_message(mem, m) == Append(mem, m)

\* mutant: the role is not checked
update_memory_NoRoleCheck(mem, role, content) ==
    [ok |-> TRUE, mem |-> add_message(mem, Msg(role, content))]

\* BaseAgent.update_memory: the new Memory, or the ValueError for a role
\* outside message_map
update_memory(mem, role, content) ==
    IF role \notin message_map
    THEN [ok |-> FALSE, mem |-> mem]
    ELSE [ok |-> TRUE, mem |-> add_message(mem, Msg(role, content))]

\* BaseAgent.is_stuck
RECURSIVE CountDuplicates(_, _)
CountDuplicates(msgs, content) ==
    IF msgs = <<>> THEN 0
    ELSE (IF msgs[Len(msgs)].role = "assistant" /\ msgs[Len(msgs)].content = content
          THEN 1 ELSE 0)
         + CountDuplicates(SubSeq(msgs, 1, Len(msgs) - 1), content)

\* mutant: the duplicate count must exceed the threshold
is_stuck_Strict(mem) ==
    IF Len(mem) < 2 THEN FALSE
    ELSE IF mem[Len(mem)].content = "" THEN FALSE
    ELSE CountDuplicates(SubSeq(mem, 1, Len(mem) - 1), mem[Len(mem)].content)
            > duplicate_threshold

is_stuck(mem) ==
    IF Len(mem) < 2 THEN FALSE
    ELSE IF mem[Len(mem)].content = "" THEN FALSE
    ELSE CountDuplicates(SubSeq(mem, 1, Len(mem) - 1), mem[Len(mem)].content)
            >= duplicate_threshold

\* mutant: only a running agent is rejected
NotIdle_OnlyRunning(a) == state[a] = "RUNNING"

\* the precondition test of run
NotIdle(a) == state[a] # "IDLE"

\* mutant: the step counter is compared with <= instead of <
LoopCondition_Inclusive(a) == current_step[a] <= max_steps[a] /\ state[a] # "FINISHED"

\* the while condition of run
LoopCondition(a) == current_step[a] < max_steps[a] /\ state[a] # "FINISHED"

\* the cap test after the loop
\* mutant: the counter is reset whenever the loop is left
CapReached_OrFinished(a) == current_step[a] >= max_steps[a] \/ state[a] = "FINISHED"

\* mutant: the cap counts as reached only beyond max_steps
CapReached_Beyond(a) == current_step[a] > max_steps[a]

CapReached(a) == current_step[a] >= max_steps[a]

\* mutant: without the finally clause the state entered (or ERROR) is kept
StateContextExit_NoRevert(prev, failed) == IF failed THEN "ERROR" ELSE "RUNNING"

\* state_context, exit of the with block: the finally clause runs on both
\* paths, after the except clause has set ERROR on the error path
StateContextExit(prev, failed) == prev

\* the text run returns
JoinResults(res) == IF res # <<>> THEN res ELSE NoStepsExecuted

\* ------------------------------------------------------------------------
\* BaseAgent.run
\* ------------------------------------------------------------------------
\* the call of run, up to its first await: rejected when the agent is not
\* IDLE; otherwise the request is appended and state_context entered
RunCallEff(a, request) ==
    IF NotIdle(a)
    THEN /\ outcome' = [outcome EXCEPT ![a] = Raised(Err("RuntimeError", state[a]))]
         /\ cleanups' = [cleanups EXCEPT ![a] = 0]
         /\ steps_run' = [steps_run EXCEPT ![a] = 0]
         /\ finished_in_run' = [finished_in_run EXCEPT ![a] = FALSE]
         /\ entry_step' = [entry_step EXCEPT ![a] = current_step[a]]
         /\ UNCHANGED <<state, current_step, max_steps, memory, stuck_prompts,
                        previous_state, results, pc>>
    ELSE /\ memory' = [memory EXCEPT ![a] =
                         IF request # "" THEN update_memory(@, "user", request).mem
                         ELSE @]
         /\ results' = [results EXCEPT ![a] = <<>>]
         /\ previous_state' = [previous_state EXCEPT ![a] = state[a]]
         /\ state' = [state EXCEPT ![a] = "RUNNING"]
         /\ pc' = [pc EXCEPT ![a] = "loop"]
         /\ outcome' = [outcome EXCEPT ![a] = NoOutcome]
         /\ cleanups' = [cleanups EXCEPT ![a] = 0]
         /\ steps_run' = [steps_run EXCEPT ![a] = 0]
         /\ finished_in_run' = [finished_in_run EXCEPT ![a] = FALSE]
         /\ entry_step' = [entry_step EXCEPT ![a] = current_step[a]]
         /\ UNCHANGED <<current_step, max_steps, stuck_prompts>>

\* the loop test: either the next step() is started, or the loop is left,
\* the cap handled and the with block left normally
LoopCheck(a) ==
    /\ pc[a] = "loop"
    /\ IF LoopCondition(a)
       THEN /\ current_step' = [current_step EXCEPT ![a] = @ + 1]
            /\ pc' = [pc EXCEPT ![a] = "step"]
            /\ UNCHANGED <<state, results>>
       ELSE /\ current_step' = [current_step EXCEPT ![a] =
                                  IF CapReached(a) THEN 0 ELSE @]
            /\ results' = [results EXCEPT ![a] =
                             IF CapReached(a)
                             THEN Append(@, TerminatedLine(max_steps[a])) ELSE @]
            /\ state' = [state EXCEPT ![a] = StateContextExit(previous_state[a], FALSE)]
            /\ pc' = [pc EXCEPT ![a] = "cleanup"]
    /\ UNCHANGED <<max_steps, memory, stuck_prompts, previous_state, outcome,
                   cleanups, steps_run, runs, finished_in_run,
                   entry_step>>
    /\ UNCHANGED flowVars /\ restFrame

\* step() returns r, having added the messages in added to Memory and,
\* when fin, having set the state to FINISHED
StepReturn(a, r, added, fin) ==
    /\ pc[a] = "step"
    /\ LET mem == memory[a] \o added
       IN /\ memory' = [memory EXCEPT ![a] = mem]
          /\ stuck_prompts' = [stuck_prompts EXCEPT ![a] =
                                 IF is_stuck(mem) THEN @ + 1 ELSE @]
    /\ state' = [state EXCEPT ![a] = IF fin THEN "FINISHED" ELSE @]
    /\ finished_in_run' = [finished_in_run EXCEPT ![a] = @ \/ fin]
    /\ results' = [results EXCEPT ![a] = Append(@, StepLine(current_step[a], r))]
    /\ steps_run' = [steps_run EXCEPT ![a] = @ + 1]
    /\ pc' = [pc EXCEPT ![a] = "loop"]
    /\ UNCHANGED <<current_step, max_steps, previous_state, outcome, cleanups, runs,
                   entry_step>>
    /\ UNCHANGED flowVars /\ restFrame

\* step() raises: the with block is left by the exception, which reaches
\* the caller of run
StepRaise(a, m) ==
    /\ pc[a] = "step"
    /\ state' = [state EXCEPT ![a] = StateContextExit(previous_state[a], TRUE)]
    /\ steps_run' = [steps_run EXCEPT ![a] = @ + 1]
    /\ outcome' = [outcome EXCEPT ![a] = Raised(Err("Exception", m))]
    /\ pc' = [pc EXCEPT ![a] = "ready"]
    /\ UNCHANGED <<current_step, max_steps, memory, stuck_prompts, previous_state,
                   results, cleanups, runs, finished_in_run,
                   entry_step>>
    /\ UNCHANGED flowVars /\ restFrame

\* SANDBOX_CLIENT.cleanup() and the return of run
Cleanup(a) ==
    /\ pc[a] = "cleanup"
    /\ cleanups' = [cleanups EXCEPT ![a] = @ + 1]
    /\ outcome' = [outcome EXCEPT ![a] = Returned(JoinResults(results[a]))]
    /\ pc' = [pc EXCEPT ![a] = "ready"]
    /\ UNCHANGED <<state, current_step, max_steps, memory, stuck_prompts,
                   previous_state, results, steps_run, runs, finished_in_run,
                   entry_step>>
    /\ UNCHANGED flowVars /\ restFrame

\* the messages a step() may add to Memory
StepAdds(a) ==
    {<<>>} \cup (IF Len(memory[a]) < MaxMem
                 THEN {<<Msg("assistant", c)>> : c \in Contents} ELSE {})

\* run called by an outside caller
RunCall(a, request) ==
    /\ pc[a] = "ready"
    /\ runs[a] < MaxRuns
    /\ runs' = [runs EXCEPT ![a] = @ + 1]
    /\ RunCallEff(a, request)
    /\ UNCHANGED flowVars /\ restFrame

\* ------------------------------------------------------------------------
\* PlanningFlow: values
\* ------------------------------------------------------------------------
\* Python's None for current_step_index and for "no current step"
NoIndex == -1
\* no primary agent configured
NoAgent == "none"

active_plan_id == "plan_1"

NOT_STARTED == "not_started"
IN_PROGRESS == "in_progress"
COMPLETED == "completed"
BLOCKED == "blocked"
get_all_statuses == {NOT_STARTED, IN_PROGRESS, COMPLETED, BLOCKED}
\* mutant: a step in progress no longer counts as active
get_active_statuses_NotStartedOnly == {NOT_STARTED}
\* mutant: every status counts as active
get_active_statuses_All == get_all_statuses
get_active_statuses == {NOT_STARTED, IN_PROGRESS}

\* a step text: its bracketed upper-case tag ("" when it has none) and the rest
PlanStep(tag, body) == [tag |-> tag, body |-> body]

\* str.lower on the tags used
Lower(tag) ==
    CASE tag = "A" -> "a"
      [] tag = "B" -> "b"
      [] tag = "ZZ" -> "zz"
      [] OTHER -> ""

\* the type _get_current_step_info extracts from a step text; "" when the
\* text has no tag (the key "type" is then absent and the type None)
StepType(step) == IF step.tag # "" THEN Lower(step.tag) ELSE ""

\* a text as the sequence of its characters; characters are numbered
Str(n) == [i \in 1..n |-> i]

Min(x, y) == IF x < y THEN x ELSE y

\* f"Plan for: {request[:50]}{'...' if len(request) > 50 else ''}"
DefaultTitle(request) ==
    [prefix |-> "Plan for: ",
     body |-> SubSeq(request, 1, Min(Len(request), TitleMax)),
     ellipsis |-> Len(request) > TitleMax]

DefaultSteps ==
    <<PlanStep("", "Analyze request"), PlanStep("", "Execute task"),
      PlanStep("", "Verify results")>>

\* one part of execute's cumulative result
Part(kind, idx, msg, text) == [kind |-> kind, idx |-> idx, msg |-> msg, text |-> text]

\* what execute returns
FlowNone == [kind |-> "none", form |-> "", parts |-> <<>>, msg |-> "", arg |-> <<>>]
FlowResult(parts) ==
    [kind |-> "returned", form |-> "Result", parts |-> parts, msg |-> "", arg |-> <<>>]
ExecutionFailed(msg) ==
    [kind |-> "returned", form |-> "ExecutionFailed", parts |-> <<>>, msg |-> msg,
     arg |-> <<>>]
FailedToCreate(inp) ==
    [kind |-> "returned", form |-> "FailedToCreate", parts |-> <<>>, msg |-> "",
     arg |-> inp]
FlowRaised(msg) ==
    [kind |-> "raised", form |-> "", parts |-> <<>>, msg |-> msg, arg |-> <<>>]

\* mutant: the handler lets the exception through
TopLevelExcept_Reraise(msg) == FlowRaised(msg)

\* the except clause around the body of execute
TopLevelExcept(msg) == ExecutionFailed(msg)

\* ------------------------------------------------------------------------
\* The planning tool (create, mark_step, get), as section 6 of the
\* specification describes it
\* ------------------------------------------------------------------------
Pad(statuses, n) ==
    [i \in 1..(IF Len(statuses) > n THEN Len(statuses) ELSE n) |->
        IF i <= Len(statuses) THEN statuses[i] ELSE NOT_STARTED]

ToolCreate(pl, id, title, steps) ==
    (id :> [title |-> title, steps |-> steps,
            step_statuses |-> [i \in 1..Len(steps) |-> NOT_STARTED]]) @@ pl

ToolMarkStep(pl, id, idx, status) ==
    [pl EXCEPT ![id].step_statuses =
        [Pad(@, Len(pl[id].steps)) EXCEPT ![idx + 1] = status]]

ToolExecute(pl, args) ==
    IF args.command = "create"
    THEN ToolCreate(pl, args.plan_id, args.title, args.steps)
    ELSE pl

\* ------------------------------------------------------------------------
\* The tool-mode reply of the model gateway to the planning request
\* ------------------------------------------------------------------------
ToolCall(name, form, parses, args) ==
    [name |-> name, form |-> form, parses |-> parses, args |-> args]

LLMTitle == [prefix |-> "", body |-> <<7>>, ellipsis |-> FALSE]
LLMSteps == <<PlanStep("B", "s1"), PlanStep("", "s2")>>
CreateArgs ==
    [command |-> "create", plan_id |-> "plan_x", title |-> LLMTitle, steps |-> LLMSteps]
GetArgs ==
    [command |-> "get", plan_id |-> "plan_x", title |-> LLMTitle, steps |-> <<>>]

OtherCall == ToolCall("other", "dict", TRUE, GetArgs)
BadTextCall == ToolCall("planning", "text", FALSE, CreateArgs)
TextCall == ToolCall("planning", "text", TRUE, CreateArgs)
DictCall == ToolCall("planning", "dict", TRUE, CreateArgs)
GetCall == ToolCall("planning", "dict", TRUE, GetArgs)

ToolCallLists ==
    {<<>>, <<OtherCall>>, <<BadTextCall>>, <<BadTextCall, BadTextCall>>,
     <<BadTextCall, TextCall>>, <<OtherCall, DictCall>>, <<GetCall>>,
     <<TextCall, BadTextCall>>}

Reply(kind, calls, msg) == [kind |-> kind, tool_calls |-> calls, msg |-> msg]

\* ask_tool raises, returns None, or returns a message
AskToolReplies ==
    {Reply("raise", <<>>, "llm error"), Reply("none", <<>>, "")}
        \cup {Reply("message", calls, "") : calls \in ToolCallLists}

\* no reply held: _create_initial_plan is not running
NoReply == Reply("unset", <<>>, "")

\* the reply yields no usable planning tool call
NoUsableCall(reply) ==
    \/ reply.kind = "none"
    \/ /\ reply.kind = "message"
       /\ \A i \in 1..Len(reply.tool_calls) :
             \/ reply.tool_calls[i].name # "planning"
             \/ /\ reply.tool_calls[i].form = "text"
                /\ ~reply.tool_calls[i].parses

\* ------------------------------------------------------------------------
\* PlanningFlow._create_initial_plan
\* ------------------------------------------------------------------------
Created(pl, source, err) == [plans |-> pl, source |-> source, err |-> err]

\* the loop over response.tool_calls
RECURSIVE ProcessToolCalls(_, _, _)
ProcessToolCalls(pl, calls, toolOk) ==
    IF calls = <<>> THEN Created(pl, "fallthrough", "")
    ELSE LET call == Head(calls)
         IN IF call.name # "planning"
            THEN ProcessToolCalls(pl, Tail(calls), toolOk)
            ELSE IF call.form = "text" /\ ~call.parses
            THEN ProcessToolCalls(pl, Tail(calls), toolOk)
            ELSE IF ~toolOk THEN Created(pl, "none", "tool error")
            ELSE Created(
                    ToolExecute(pl, [call.args EXCEPT !.plan_id = active_plan_id]),
                    "tool_call", "")

\* the default plan created after the loop
CreateDefaultPlan(pl, request, toolOk) ==
    IF ~toolOk THEN Created(pl, "none", "tool error")
    ELSE Created(ToolCreate(pl, active_plan_id, DefaultTitle(request), DefaultSteps),
                 "default", "")

create_initial_plan(pl, request, reply, toolOk) ==
    IF reply.kind = "raise" THEN Created(pl, "none", reply.msg)
    ELSE IF reply.kind = "none"
    THEN Created(pl, "none", "'NoneType' object has no attribute 'tool_calls'")
    ELSE LET r == ProcessToolCalls(pl, reply.tool_calls, toolOk)
         IN IF r.source = "fallthrough"
            THEN CreateDefaultPlan(pl, request, toolOk)
            ELSE r

\* ------------------------------------------------------------------------
\* PlanningFlow._get_current_step_info
\* ------------------------------------------------------------------------
\* status of step i (0-based) as the scan reads it
StatusAt(plan, i) ==
    IF i >= Len(plan.step_statuses) THEN NOT_STARTED ELSE plan.step_statuses[i + 1]

\* mutant: the scan returns the last active step instead of the first
ScanFrom_Backwards(plan, i) ==
    LET open == {k \in i..(Len(plan.steps) - 1) :
                   (IF k >= Len(plan.step_statuses) THEN NOT_STARTED
                    ELSE plan.step_statuses[k + 1]) \in get_active_statuses}
    IN IF open = {} THEN NoIndex
       ELSE CHOOSE k \in open : \A m \in open : m <= k

\* the scan for the first active step, from index i on
RECURSIVE ScanFrom(_, _)
ScanFrom(plan, i) ==
    IF i >= Len(plan.steps) THEN NoIndex
    ELSE IF StatusAt(plan, i) \in get_active_statuses THEN i
    ELSE ScanFrom(plan, i + 1)

\* mutant: the fallback after a failed mark_step call writes nothing
DirectMarkInProgress_Noop(statuses, i) == statuses

\* the direct update of step_statuses when the mark_step call failed
DirectMarkInProgress(statuses, i) ==
    IF i < Len(statuses) THEN [statuses EXCEPT ![i + 1] = IN_PROGRESS]
    ELSE Pad(statuses, i) \o <<IN_PROGRESS>>

Selected(idx, type, pl) == [index |-> idx, type |-> type, plans |-> pl]

get_current_step_info(pl, markOk) ==
    IF active_plan_id \notin DOMAIN pl THEN Selected(NoIndex, "", pl)
    ELSE LET plan == pl[active_plan_id]
             i == ScanFrom(plan, 0)
         IN IF i = NoIndex THEN Selected(NoIndex, "", pl)
            ELSE Selected(i, StepType(plan.steps[i + 1]),
                    IF markOk THEN ToolMarkStep(pl, active_plan_id, i, IN_PROGRESS)
                    ELSE [pl EXCEPT ![active_plan_id].step_statuses =
                            DirectMarkInProgress(@, i)])

\* ------------------------------------------------------------------------
\* PlanningFlow._mark_step_completed
\* ------------------------------------------------------------------------
DirectMarkCompleted(statuses, i) ==
    [Pad(statuses, i + 1) EXCEPT ![i + 1] = COMPLETED]

\* mutant: the completed step is not recorded
mark_step_completed_Noop(pl, idx, markOk) == pl

mark_step_completed(pl, idx, markOk) ==
    IF idx = NoIndex THEN pl
    ELSE IF markOk THEN ToolMarkStep(pl, active_plan_id, idx, COMPLETED)
    ELSE IF active_plan_id \in DOMAIN pl
    THEN [pl EXCEPT ![active_plan_id].step_statuses = DirectMarkCompleted(@, idx)]
    ELSE pl

\* ------------------------------------------------------------------------
\* PlanningFlow._get_plan_text: its effect on plan storage. When the get
\* command fails, _generate_plan_text_from_storage pads the stored
\* step_statuses list in place up to the number of steps
\* ------------------------------------------------------------------------
get_plan_text_storage(pl, getOk) ==
    IF getOk \/ active_plan_id \notin DOMAIN pl THEN pl
    ELSE [pl EXCEPT ![active_plan_id].step_statuses =
            Pad(@, Len(pl[active_plan_id].steps))]

\* ------------------------------------------------------------------------
\* PlanningFlow.get_executor
\* ------------------------------------------------------------------------
RECURSIVE FirstExecutorKey(_, _)
FirstExecutorKey(keys, registry) ==
    IF keys = <<>> THEN NoAgent
    ELSE IF Head(keys) \in registry THEN Head(keys)
    ELSE FirstExecutorKey(Tail(keys), registry)

\* mutant: the step type is not consulted
get_executor_IgnoresType(step_type) ==
    IF FirstExecutorKey(executor_keys, agents) # NoAgent
    THEN FirstExecutorKey(executor_keys, agents)
    ELSE primary

get_executor(step_type) ==
    IF step_type # "" /\ step_type \in agents THEN step_type
    ELSE IF FirstExecutorKey(executor_keys, agents) # NoAgent
    THEN FirstExecutorKey(executor_keys, agents)
    ELSE primary

\* ------------------------------------------------------------------------
\* PlanningFlow.execute
\* ------------------------------------------------------------------------
agentFrame == UNCHANGED agentVars
configFrame == UNCHANGED <<agents, primary, executor_keys>>

\* the call of execute, up to the await of the planning request
ExecuteCall(inp) ==
    /\ fpc = "idle"
    /\ input_text' = inp
    /\ IF primary = NoAgent
       THEN /\ flow_outcome' = TopLevelExcept("No primary agent available")
            /\ escaped' = "No primary agent available"
            /\ fpc' = "done"
       ELSE /\ flow_outcome' = flow_outcome
            /\ escaped' = escaped
            /\ fpc' = IF inp # <<>> THEN "create" ELSE "select"
    /\ UNCHANGED <<plans, current_step_index, executor, result, iters, executed,
                   finalized, plan_source, summary_ask, response>>
    /\ agentFrame /\ configFrame /\ restFrame

\* ask_tool has ended: its reply, None or error is held by _create_initial_plan
AskToolDone(reply) ==
    /\ fpc = "create"
    /\ response' = reply
    /\ fpc' = "planning"
    /\ UNCHANGED <<plans, current_step_index, input_text, executor, result,
                   flow_outcome, iters, executed, finalized, plan_source,
                   summary_ask, escaped>>
    /\ agentFrame /\ configFrame /\ restFrame

\* mutant: the check after plan creation always passes
plan_missing_Never(pl) == FALSE

\* execute's check after _create_initial_plan: no plan under active_plan_id
plan_missing(pl) == active_plan_id \notin DOMAIN pl

\* the rest of _create_initial_plan, with the outcome of the planning tool
\* call it makes, and the check that the plan is in storage
CreatePlan(toolOk) ==
    /\ fpc = "planning"
    /\ LET r == create_initial_plan(plans, input_text, response, toolOk)
       IN /\ plans' = r.plans
          /\ plan_source' = r.source
          /\ response' = NoReply
          /\ escaped' = r.err
          /\ IF r.err # ""
             THEN /\ flow_outcome' = TopLevelExcept(r.err)
                  /\ fpc' = "done"
             ELSE IF plan_missing(r.plans)
             THEN /\ flow_outcome' = FailedToCreate(input_text)
                  /\ fpc' = "done"
             ELSE /\ flow_outcome' = flow_outcome
                  /\ fpc' = "select"
    /\ UNCHANGED <<current_step_index, input_text, executor, result, iters,
                   executed, finalized, summary_ask>>
    /\ agentFrame /\ configFrame /\ restFrame

\* one pass of the main loop up to its await: the step is selected; with
\* no current step _finalize_plan renders the plan and asks the gateway;
\* otherwise the executor is chosen, the plan rendered and the executor run
SelectStep(markOk, getOk) ==
    /\ fpc = "select"
    /\ iters < MaxIters
    /\ iters' = iters + 1
    /\ LET sel == get_current_step_info(plans, markOk)
       IN /\ current_step_index' = sel.index
          /\ plans' = get_plan_text_storage(sel.plans, getOk)
          /\ IF sel.index = NoIndex
             THEN /\ finalized' = finalized + 1
                  /\ fpc' = "finalize"
                  /\ UNCHANGED <<executor, executed>>
                  /\ agentFrame
             ELSE /\ executor' = get_executor(sel.type)
                  /\ executed' = Append(executed, sel.index)
                  /\ fpc' = "run"
                  /\ RunCallEff(executor', "x")
                  /\ UNCHANGED <<runs, finalized>>
    /\ UNCHANGED <<input_text, result, flow_outcome, plan_source, summary_ask,
                   response, escaped>>
    /\ configFrame /\ restFrame

\* mutant: the step is marked completed whether or not the run failed
execute_step_MarksAlways(pl, idx, o, markOk) ==
    [plans |-> mark_step_completed(pl, idx, markOk),
     part |-> IF o.kind = "returned"
              THEN Part("step_result", idx, "", o.value)
              ELSE Part("step_error", idx, o.err.arg, <<>>)]

\* _execute_step once the executor's run has ended with outcome o: the step
\* is marked completed and the run's text returned, or the error text
\* returned with the plan left as it is
execute_step(pl, idx, o, markOk) ==
    IF o.kind = "returned"
    THEN [plans |-> mark_step_completed(pl, idx, markOk),
          part |-> Part("step_result", idx, "", o.value)]
    ELSE [plans |-> pl,
          part |-> Part("step_error", idx, o.err.arg, <<>>)]

\* the executor's run has ended: the rest of _execute_step and of the pass
StepDone(markOk) ==
    /\ fpc = "run"
    /\ pc[executor] = "ready"
    /\ LET r == execute_step(plans, current_step_index, outcome[executor], markOk)
           parts == Append(result, r.part)
       IN /\ plans' = r.plans
          /\ result' = parts
          /\ IF state[executor] = "FINISHED"
             THEN /\ flow_outcome' = FlowResult(parts)
                  /\ fpc' = "done"
             ELSE /\ flow_outcome' = flow_outcome
                  /\ fpc' = "select"
    /\ UNCHANGED <<current_step_index, input_text, executor, iters, executed,
                   finalized, plan_source, summary_ask, response, escaped>>
    /\ agentFrame /\ configFrame /\ restFrame

\* mutant: the literal is returned whatever the summary run did
finalize_fallback_AlwaysLiteral(o) == Part("summary_error", NoIndex, "", <<>>)

\* _finalize_plan after the gateway failed, on the outcome o of the primary
\* agent's summary run: 'Plan completed:' with the run's text, or the
\* literal 'Plan completed. Error generating summary.'
finalize_fallback(o) ==
    IF o.kind = "returned"
    THEN Part("summary_agent", NoIndex, "", o.value)
    ELSE Part("summary_error", NoIndex, "", <<>>)

\* _finalize_plan on the outcome of llm.ask
Finalize(askOk) ==
    /\ fpc = "finalize"
    /\ summary_ask' = IF askOk THEN "ok" ELSE "failed"
    /\ IF askOk
       THEN /\ result' = Append(result, Part("summary_llm", NoIndex, "", <<>>))
            /\ flow_outcome' = FlowResult(result')
            /\ fpc' = "done"
            /\ agentFrame
       ELSE /\ fpc' = "summary"
            /\ RunCallEff(primary, "x")
            /\ UNCHANGED <<runs, result, flow_outcome>>
    /\ UNCHANGED <<plans, current_step_index, input_text, executor, iters, executed,
                   finalized, plan_source, response, escaped>>
    /\ configFrame /\ restFrame

\* the primary agent's summary run has ended
SummaryDone ==
    /\ fpc = "summary"
    /\ pc[primary] = "ready"
    /\ result' = Append(result, finalize_fallback(outcome[primary]))
    /\ flow_outcome' = FlowResult(result')
    /\ fpc' = "done"
    /\ UNCHANGED <<plans, current_step_index, input_text, executor, iters, executed,
                   finalized, plan_source, summary_ask, response, escaped>>
    /\ agentFrame /\ configFrame /\ restFrame

\* ------------------------------------------------------------------------
\* BaseAgent.update_memory called by an outside caller
\* ------------------------------------------------------------------------
NoUpdate == [role |-> "", content |-> "", ok |-> TRUE, err |-> ""]

\* update_memory(role, content); a tool message is given its tool_call_id
UpdateMemory(a, role, content) ==
    /\ Len(memory[a]) < MaxMem
    /\ LET u == update_memory(memory[a], role, content)
       IN /\ memory' = [memory EXCEPT ![a] = u.mem]
          /\ um_last' = [um_last EXCEPT ![a] =
                           [role |-> role, content |-> content, ok |-> u.ok,
                            err |-> IF u.ok THEN "" ELSE "Unsupported message role"]]
    /\ UNCHANGED <<state, current_step, max_steps, stuck_prompts, previous_state,
                   results, pc, outcome, cleanups, steps_run, runs, finished_in_run,
                   entry_step>>
    /\ UNCHANGED <<flowVars, llmVars, fnVars>>

\* ------------------------------------------------------------------------
\* The model gateway LLM (src/app/llm.py): values
\* ------------------------------------------------------------------------
\* max_input_tokens is None
NoLimit == -1

\* callers of the binding; SoloCallers make their calls one after another
GatewayCallers == {"c1", "c2"}
SoloCallers == {"c1"}

\* the arguments of a gateway call, as far as its control flow reads them:
\* choice_valid is ask_tool's check of tool_choice, made first; valid covers
\* the other checks made before the budget check (message format; model,
\* last message and image format in ask_with_images); tools_valid is the
\* check of the offered tools, made after the budget check; tokens is
\* count_message_tokens of the formatted messages and tools_tokens the
\* tokens of the offered tool descriptions
GatewayRequest(method, stream, choice_valid, valid, tools_valid, tokens, tools_tokens) ==
    [method |-> method, stream |-> stream, choice_valid |-> choice_valid,
     valid |-> valid, tools_valid |-> tools_valid, tokens |-> tokens,
     tools_tokens |-> tools_tokens]

NoRequest == GatewayRequest("", FALSE, TRUE, TRUE, TRUE, 0, 0)

GatewayRequests ==
    {GatewayRequest(m, st, TRUE, v, TRUE, t, 0) :
        m \in {"ask", "ask_with_images"}, st \in BOOLEAN, v \in BOOLEAN,
        t \in 1..MaxTokens}
    \cup
    {q \in {GatewayRequest("ask_tool", FALSE, cv, v, tv, t, tt) :
               cv \in BOOLEAN, v \in BOOLEAN, tv \in BOOLEAN,
               t \in 1..MaxTokens, tt \in 0..1} :
        q.tools_tokens = 0 => q.tools_valid}

\* input_tokens of the budget check: messages plus offered tools
EstimatedInput(r) == r.tokens + r.tools_tokens

\* what the provider does with a request
ProviderReply(kind, prompt, completion) ==
    [kind |-> kind, prompt |-> prompt, completion |-> completion]
NoProviderReply == ProviderReply("none", 0, 0)

\* a transport error, a response without choices or content, or a response
\* with its usage (for a stream: the tokens of the collected text)
ProviderReplies(r) ==
    {ProviderReply("error", 0, 0), ProviderReply("empty", 0, 0)}
    \cup {ProviderReply("ok", p, q) :
            p \in (IF r.stream THEN {EstimatedInput(r)}
                   ELSE {EstimatedInput(r), EstimatedInput(r) + 1}),
            q \in 1..MaxCompletion}

\* the classes an exception raised in the gateway is an instance of: each
\* derives from Exception (the handlers of the call bodies list
\* TokenLimitExceeded, ValueError and OpenAIError before Exception)
ExceptionBases(type) == {type, "Exception"}

\* retry_if_exception_type((OpenAIError, Exception, ValueError))
retry_types == {"OpenAIError", "Exception", "ValueError"}
retry_if_exception_type(e) == ExceptionBases(e.type) \cap retry_types # {}

\* stop_after_attempt(6), on the number of the attempt that has failed
stop_after_attempt(n) == n >= max_attempt_number

\* the error of the retry layer when it gives up; reraise is not set, so
\* the last attempt's exception is wrapped
RetryError(e) == Err("RetryError", e.type)

\* LLM.update_token_count
update_token_count(totals, input_tokens, completion_tokens) ==
    [in |-> totals.in + input_tokens, out |-> totals.out + completion_tokens]

\* mutant: a request that exactly fills the budget is refused
check_token_limit_Strict(total, max, input_tokens) ==
    IF max # NoLimit THEN total + input_tokens < max ELSE TRUE

\* LLM.check_token_limit
check_token_limit(total, max, input_tokens) ==
    IF max # NoLimit THEN total + input_tokens <= max ELSE TRUE

\* the body of ask, ask_with_images and ask_tool up to the provider call:
\* the exception it raises, or NoErr when the provider is called
pre_call_error(r, total, max) ==
    IF ~r.choice_valid THEN Err("ValueError", "Invalid tool_choice")
    ELSE IF ~r.valid THEN Err("ValueError", "invalid request")
    ELSE IF ~check_token_limit(total, max, EstimatedInput(r))
    THEN Err("TokenLimitExceeded", "limit")
    ELSE IF ~r.tools_valid THEN Err("ValueError", "invalid tool")
    ELSE NoErr

\* the body after the provider call: the exception raised or the value
\* returned, and the tokens added to the two counters
AfterReply(err, value, add_in, add_out) ==
    [err |-> err, value |-> value, add_in |-> add_in, add_out |-> add_out]

\* mutant: an empty response is handed back as the result in every mode
post_call_EmptyIsResult(r, reply) ==
    IF reply.kind = "error"
    THEN AfterReply(Err("OpenAIError", "transport"), <<>>, 0, 0)
    ELSE IF reply.kind = "empty"
    THEN AfterReply(NoErr, <<"None">>, 0, 0)
    ELSE IF r.method = "ask_with_images"
    THEN AfterReply(NoErr, <<"content">>, IF r.stream THEN 0 ELSE reply.prompt, 0)
    ELSE IF r.stream
    THEN AfterReply(NoErr, <<"content">>, 0, reply.completion)
    ELSE AfterReply(NoErr, <<"content">>, reply.prompt, reply.completion)

post_call(r, reply) ==
    IF reply.kind = "error"
    THEN AfterReply(Err("OpenAIError", "transport"), <<>>, 0, 0)
    ELSE IF reply.kind = "empty"
    THEN (IF r.method = "ask_tool" THEN AfterReply(NoErr, <<"None">>, 0, 0)
          ELSE AfterReply(Err("ValueError", "empty response"), <<>>, 0, 0))
    ELSE IF r.method = "ask_with_images"
    THEN AfterReply(NoErr, <<"content">>, IF r.stream THEN 0 ELSE reply.prompt, 0)
    ELSE IF r.stream
    THEN AfterReply(NoErr, <<"content">>, 0, reply.completion)
    ELSE AfterReply(NoErr, <<"content">>, reply.prompt, reply.completion)

\* the retry layer on attempt n having raised e: wait and try again, or
\* end the call
RetryDecision(n, e) ==
    IF ~retry_if_exception_type(e) THEN [next |-> "ready", outcome |-> Raised(e)]
    ELSE IF stop_after_attempt(n)
    THEN [next |-> "ready", outcome |-> Raised(RetryError(e))]
    ELSE [next |-> "wait", outcome |-> NoOutcome]

\* ------------------------------------------------------------------------
\* The model gateway: a call and its attempts
\* ------------------------------------------------------------------------
\* attempt n of caller c's call with arguments r, up to its await of the
\* provider (base = provider requests the call has made before); a
\* streaming call adds its estimate to the input counter before the
\* provider is asked
BeginAttempt(c, r, n, base) ==
    LET e == pre_call_error(r, total_input_tokens, max_input_tokens)
        d == RetryDecision(n, e)
        totals == update_token_count(
                     [in |-> total_input_tokens, out |-> total_completion_tokens],
                     IF e = NoErr /\ r.stream THEN EstimatedInput(r) ELSE 0, 0)
    IN /\ attempt' = [attempt EXCEPT ![c] = n]
       /\ last_err' = [last_err EXCEPT ![c] = e]
       /\ last_resp' = [last_resp EXCEPT ![c] = NoProviderReply]
       /\ total_input_tokens' = totals.in
       /\ total_completion_tokens' = totals.out
       /\ provider_calls' = [provider_calls EXCEPT ![c] =
                               IF e = NoErr THEN base + 1 ELSE base]
       /\ lpc' = [lpc EXCEPT ![c] = IF e = NoErr THEN "provider" ELSE d.next]
       /\ call_outcome' = [call_outcome EXCEPT ![c] =
                             IF e = NoErr THEN NoOutcome ELSE d.outcome]

\* a caller calls ask, ask_with_images or ask_tool: the first attempt runs
\* up to its await
CallStart(c, r) ==
    /\ lpc[c] = "ready"
    /\ calls_made[c] < MaxCalls
    /\ calls_made' = [calls_made EXCEPT ![c] = @ + 1]
    /\ req' = [req EXCEPT ![c] = r]
    /\ transient' = [transient EXCEPT ![c] = 0]
    /\ in_at_call' = [in_at_call EXCEPT ![c] = total_input_tokens]
    /\ out_at_call' = [out_at_call EXCEPT ![c] = total_completion_tokens]
    /\ BeginAttempt(c, r, 1, 0)
    /\ UNCHANGED max_input_tokens
    /\ UNCHANGED <<agentVars, flowVars, um_last, fnVars>>

\* the wait of the retry layer is over: the next attempt runs up to its await
Retry(c) ==
    /\ lpc[c] = "wait"
    /\ BeginAttempt(c, req[c], attempt[c] + 1, provider_calls[c])
    /\ UNCHANGED <<max_input_tokens, req, transient, in_at_call, out_at_call,
                   calls_made>>
    /\ UNCHANGED <<agentVars, flowVars, um_last, fnVars>>

\* the provider has answered (or the transport failed): the rest of the
\* attempt, and the retry layer when the attempt raised
ProviderReturns(c, reply) ==
    /\ lpc[c] = "provider"
    /\ LET r == post_call(req[c], reply)
           d == RetryDecision(attempt[c], r.err)
           totals == update_token_count(
                        [in |-> total_input_tokens, out |-> total_completion_tokens],
                        r.add_in, r.add_out)
       IN /\ last_resp' = [last_resp EXCEPT ![c] = reply]
          /\ last_err' = [last_err EXCEPT ![c] = r.err]
          /\ transient' = [transient EXCEPT ![c] =
                             IF reply.kind = "error" THEN @ + 1 ELSE @]
          /\ total_input_tokens' = totals.in
          /\ total_completion_tokens' = totals.out
          /\ lpc' = [lpc EXCEPT ![c] = IF r.err = NoErr THEN "ready" ELSE d.next]
          /\ call_outcome' = [call_outcome EXCEPT ![c] =
                                IF r.err = NoErr THEN Returned(r.value) ELSE d.outcome]
    /\ UNCHANGED <<max_input_tokens, req, attempt, provider_calls, in_at_call,
                   out_at_call, calls_made>>
    /\ UNCHANGED <<agentVars, flowVars, um_last, fnVars>>

\* ------------------------------------------------------------------------
\* Specification of the orchestrator with its agents
\* ------------------------------------------------------------------------
\* dict order of the agent registry
RECURSIVE KeyList(_)
KeyList(S) ==
    IF S = {} THEN <<>>
    ELSE LET k == IF "a" \in S THEN "a" ELSE CHOOSE x \in S : TRUE
         IN <<k>> \o KeyList(S \ {k})

InputTexts == {<<>>, Str(3), Str(TitleMax), Str(TitleMax + 1)}

StatusSeqs(n) == UNION {[1..k -> get_all_statuses] : k \in 0..n}

\* plan storage before execute
StoredPlans ==
    {[title |-> LLMTitle, steps |-> LLMSteps, step_statuses |-> st] :
        st \in StatusSeqs(Len(LLMSteps))}

ExecutorKeyChoices == {<<>>, <<"zz", "b">>, <<"zz">>}

\* ------------------------------------------------------------------------
\* TokenCounter.count_image
\* ------------------------------------------------------------------------
LOW_DETAIL_IMAGE_TOKENS == 85
HIGH_DETAIL_TILE_TOKENS == 170
MAX_SIZE == 2048
HIGH_DETAIL_TARGET_SHORT_SIDE == 768
TILE_SIZE == 512
\* the side count_image assumes for a high-detail image without dimensions
DefaultSide == 1024
\* the estimate of a medium or unknown detail level without dimensions
DefaultImageTokens == 1024

\* an image item: detail "" when the key is absent, dimensions <<>> when
\* the key is absent and <<width, height>> otherwise
ImageItem(detail, dimensions) == [detail |-> detail, dimensions |-> dimensions]

NoCount == [kind |-> "none", tokens |-> 0, err |-> NoErr]
Tokens(n) == [kind |-> "returned", tokens |-> n, err |-> NoErr]
CountRaised(e) == [kind |-> "raised", tokens |-> 0, err |-> e]

Max(x, y) == IF x > y THEN x ELSE y

\* int(x * (num / den)) for x >= 0; the sides drawn below make num / den and
\* the product exact in binary floating point
Scaled(x, num, den) == (x * num) \div den

\* math.ceil(x / TILE_SIZE)
Tiles(x) == (x + TILE_SIZE - 1) \div TILE_SIZE

calculate_high_detail_tokens(width, height) ==
    LET big == width > MAX_SIZE \/ height > MAX_SIZE
        w1 == IF big THEN Scaled(width, MAX_SIZE, Max(width, height)) ELSE width
        h1 == IF big THEN Scaled(height, MAX_SIZE, Max(width, height)) ELSE height
        short == Min(w1, h1)
    IN  IF short = 0
        THEN CountRaised(Err("ZeroDivisionError", "division by zero"))
        ELSE LET scaled_width == Scaled(w1, HIGH_DETAIL_TARGET_SHORT_SIDE, short)
                 scaled_height == Scaled(h1, HIGH_DETAIL_TARGET_SHORT_SIDE, short)
                 total_tiles == Tiles(scaled_width) * Tiles(scaled_height)
             IN  Tokens(total_tiles * HIGH_DETAIL_TILE_TOKENS + LOW_DETAIL_IMAGE_TOKENS)

\* mutant: the dimensions are looked at before the detail level
count_image_DimensionsFirst(image_item) ==
    IF image_item.dimensions # <<>>
    THEN calculate_high_detail_tokens(image_item.dimensions[1], image_item.dimensions[2])
    ELSE IF image_item.detail = "low"
    THEN Tokens(LOW_DETAIL_IMAGE_TOKENS)
    ELSE IF image_item.detail = "high"
    THEN calculate_high_detail_tokens(DefaultSide, DefaultSide)
    ELSE Tokens(DefaultImageTokens)

count_image(image_item) ==
    LET detail == IF image_item.detail = "" THEN "medium" ELSE image_item.detail
    IN  IF detail = "low"
        THEN Tokens(LOW_DETAIL_IMAGE_TOKENS)
        ELSE IF detail \in {"high", "medium"} /\ image_item.dimensions # <<>>
        THEN calculate_high_detail_tokens(image_item.dimensions[1],
                                          image_item.dimensions[2])
        ELSE IF detail = "high"
        THEN calculate_high_detail_tokens(DefaultSide, DefaultSide)
        ELSE Tokens(DefaultImageTokens)

ImageDetails == {"", "low", "medium", "high", "auto"}
ImageSides == {0, 1, 512, 768, 1024, 2048, 4096}
ImageItems ==
    {ImageItem(d, dims) :
        d \in ImageDetails, dims \in {<<>>} \cup (ImageSides \X ImageSides)}

\* ------------------------------------------------------------------------
\* PlanningFlow._generate_plan_text_from_storage
\* ------------------------------------------------------------------------
\* PlanStepStatus.get_status_marks; "[v]" stands for the check mark and
\* "[>]" for the arrow
status_marks(status) ==
    CASE status = COMPLETED -> "[v]"
      [] status = IN_PROGRESS -> "[>]"
      [] status = BLOCKED -> "[!]"
      [] OTHER -> "[ ]"

\* while len(step_statuses) < len(steps): append NOT_STARTED
PadToSteps(step_statuses, n) ==
    [i \in 1..Max(Len(step_statuses), n) |->
        IF i <= Len(step_statuses) THEN step_statuses[i] ELSE NOT_STARTED]

status_counts(step_statuses, status) ==
    Cardinality({i \in 1..Len(step_statuses) : step_statuses[i] = status})

\* mutant: the decimals after the first are cut off
Tenths_Truncated(completed, total) == (1000 * completed) \div total

\* the tenths of (completed / total) * 100 as the format ".1f" rounds it:
\* to the nearest tenth, a tie to the even one (no tie occurs, and the
\* floating-point quotient rounds as the exact one, for the totals drawn)
Tenths(completed, total) ==
    LET q == (1000 * completed) \div total
        r == (1000 * completed) % total
    IN  IF 2 * r > total THEN q + 1
        ELSE IF 2 * r < total THEN q
        ELSE IF q % 2 = 0 THEN q ELSE q + 1

\* f"{progress:.1f}" of a value given in tenths
Fixed1(tenths) == ToString(tenths \div 10) \o "." \o ToString(tenths % 10)

ProgressLine(completed, total, tenths) ==
    "Progress: " \o ToString(completed) \o "/" \o ToString(total)
        \o " steps completed (" \o Fixed1(tenths) \o "%)"

\* "=" * n
RECURSIVE Repeat(_, _)
Repeat(ch, n) == IF n = 0 THEN "" ELSE ch \o Repeat(ch, n - 1)

\* f"Plan: {title} (ID: {self.active_plan_id})\n"
FirstLine(title) == "Plan: " \o title \o " (ID: " \o active_plan_id \o ")\n"

NoText ==
    [kind |-> "none", first_line |-> "", underline |-> "", progress |-> "",
     status |-> <<>>, lines |-> <<>>]

generate_plan_text_from_storage(pl) ==
    IF active_plan_id \notin DOMAIN pl
    THEN [NoText EXCEPT !.kind = "not_found"]
    ELSE LET steps == pl[active_plan_id].steps
             step_statuses == PadToSteps(pl[active_plan_id].step_statuses, Len(steps))
             completed == status_counts(step_statuses, COMPLETED)
             total == Len(steps)
             progress == IF total > 0 THEN Tenths(completed, total) ELSE 0
             plan_text == FirstLine(pl[active_plan_id].title)
         IN  [kind |-> "text",
              first_line |-> plan_text,
              underline |-> Repeat("=", Len(plan_text)),
              progress |-> ProgressLine(completed, total, progress),
              status |-> <<completed, status_counts(step_statuses, IN_PROGRESS),
                           status_counts(step_statuses, BLOCKED),
                           status_counts(step_statuses, NOT_STARTED)>>,
              lines |-> [i \in 1..Min(Len(steps), Len(step_statuses)) |->
                            [index |-> i - 1, mark |-> status_marks(step_statuses[i]),
                             step |-> steps[i]]]]

\* the stored status list is padded in place before the text is built
PaddedStorage(pl) ==
    IF active_plan_id \notin DOMAIN pl
    THEN pl
    ELSE [pl EXCEPT ![active_plan_id].step_statuses =
                        PadToSteps(@, Len(pl[active_plan_id].steps))]

MaxPlanSteps == 3
StepTexts == <<"a", "b", "c", "d", "e">>
NoPlans == <<>>
PlanTitles == {"", "Trip"}
RenderedPlans ==
    {NoPlans} \cup
    UNION {{(active_plan_id :> [title |-> title, steps |-> SubSeq(StepTexts, 1, n),
                         step_statuses |-> st]) :
               st \in StatusSeqs(n), title \in PlanTitles} :
           n \in 0..MaxPlanSteps}

\* ------------------------------------------------------------------------
\* LLM.format_messages
\* ------------------------------------------------------------------------
ROLE_VALUES == {"system", "user", "assistant", "tool"}

NoContent == [present |-> FALSE, form |-> "", text |-> FALSE, image |-> FALSE]
StrContent == [present |-> TRUE, form |-> "str", text |-> TRUE, image |-> FALSE]

\* a message of the batch: type "dict" or another type; role "" when the
\* key is absent; tool_calls and base64_image say whether the key is there
InMessage(type, role, content, tool_calls, base64_image) ==
    [type |-> type, role |-> role, content |-> content, tool_calls |-> tool_calls,
     base64_image |-> base64_image]

\* the image part appended to the content, which becomes a list
WithImage(content) ==
    [present |-> TRUE, form |-> "list", text |-> content.text, image |-> TRUE]

\* one dict after the base64_image handling
FormatOne(m, supports_images) ==
    IF m.type # "dict" \/ m.role = "" \/ ~m.base64_image
    THEN m
    ELSE [m EXCEPT !.content = IF supports_images THEN WithImage(@) ELSE @,
                   !.base64_image = FALSE]

Kept(m) == m.content.present \/ m.tool_calls

\* indices at which the first loop raises
Offending(msgs) == {i \in 1..Len(msgs) : msgs[i].type # "dict" \/ msgs[i].role = ""}

FirstOffending(msgs) == CHOOSE i \in Offending(msgs) : \A j \in Offending(msgs) : i <= j

format_messages(msgs, supports_images) ==
    IF Offending(msgs) # {}
    THEN IF msgs[FirstOffending(msgs)].type # "dict"
         THEN Raised(Err("TypeError", "Unsupported message type"))
         ELSE Raised(Err("ValueError", "Message dict must contain 'role' field"))
    ELSE LET formatted_messages ==
                 SelectSeq([i \in 1..Len(msgs) |-> FormatOne(msgs[i], supports_images)],
                           Kept)
         IN  IF \E i \in 1..Len(formatted_messages) :
                    formatted_messages[i].role \notin ROLE_VALUES
             THEN Raised(Err("ValueError", "Invalid role"))
             ELSE Returned(formatted_messages)

\* the caller's dicts after the call: those the first loop went through
\* have lost base64_image and, with image support, gained the image part
MessagesAfter(msgs, supports_images) ==
    [i \in 1..Len(msgs) |->
        IF Offending(msgs) = {} \/ i < FirstOffending(msgs)
        THEN FormatOne(msgs[i], supports_images)
        ELSE msgs[i]]

MaxBatch == 2
BatchMessages ==
    {InMessage("dict", role, content, tool_calls, base64_image) :
        role \in {"", "user", "bogus"}, content \in {NoContent, StrContent},
        tool_calls \in BOOLEAN, base64_image \in BOOLEAN}
    \cup {InMessage("str", "", NoContent, FALSE, FALSE)}
Batches == UNION {[1..n -> BatchMessages] : n \in 0..MaxBatch}
FormatInput(msgs, supports_images) ==
    [messages |-> msgs, supports_images |-> supports_images]

\* ------------------------------------------------------------------------
\* The three functions above, not called
\* ------------------------------------------------------------------------
FnIdle ==
    /\ count_in = ImageItem("", <<>>)
    /\ count_out = NoCount
    /\ render_in = NoPlans
    /\ render_out = NoText
    /\ format_in = FormatInput(<<>>, FALSE)
    /\ format_out = NoOutcome

\* the flow before execute is called, without agents
FlowIdle ==
    /\ agents = {}
    /\ primary = NoAgent
    /\ executor_keys = <<>>
    /\ plans = <<>>
    /\ current_step_index = NoIndex
    /\ input_text = <<>>
    /\ executor = NoAgent
    /\ result = <<>>
    /\ fpc = "idle"
    /\ flow_outcome = FlowNone
    /\ iters = 0
    /\ executed = <<>>
    /\ finalized = 0
    /\ plan_source = "none"
    /\ summary_ask = "none"
    /\ response = NoReply
    /\ escaped = ""

\* the gateway binding after construction, no call made
LLMIdle ==
    /\ total_input_tokens = 0
    /\ total_completion_tokens = 0
    /\ lpc = [c \in GatewayCallers |-> "ready"]
    /\ req = [c \in GatewayCallers |-> NoRequest]
    /\ attempt = [c \in GatewayCallers |-> 0]
    /\ provider_calls = [c \in GatewayCallers |-> 0]
    /\ transient = [c \in GatewayCallers |-> 0]
    /\ last_err = [c \in GatewayCallers |-> NoErr]
    /\ last_resp = [c \in GatewayCallers |-> NoProviderReply]
    /\ call_outcome = [c \in GatewayCallers |-> NoOutcome]
    /\ in_at_call = [c \in GatewayCallers |-> 0]
    /\ out_at_call = [c \in GatewayCallers |-> 0]
    /\ calls_made = [c \in GatewayCallers |-> 0]

\* no update_memory call made by an outside caller
NoUpdates == um_last = [a \in AgentKeys |-> NoUpdate]

FlowInit ==
    /\ LLMIdle /\ max_input_tokens = NoLimit
    /\ NoUpdates /\ FnIdle
    /\ agents \in {{"a"}, {"a", "b"}}
    /\ primary \in agents \cup {NoAgent}
    /\ \E keys \in ExecutorKeyChoices :
          executor_keys = IF keys = <<>> THEN KeyList(agents) ELSE keys
    /\ plans \in {<<>>} \cup {(active_plan_id :> p) : p \in StoredPlans}
    /\ current_step_index = NoIndex
    /\ input_text = <<>>
    /\ executor = NoAgent
    /\ result = <<>>
    /\ fpc = "idle"
    /\ flow_outcome = FlowNone
    /\ iters = 0
    /\ executed = <<>>
    /\ finalized = 0
    /\ plan_source = "none"
    /\ summary_ask = "none"
    /\ response = NoReply
    /\ escaped = ""
    /\ state = [a \in AgentKeys |-> "IDLE"]
    /\ current_step = [a \in AgentKeys |-> 0]
    /\ max_steps \in [AgentKeys -> 1..MaxSteps]
    /\ max_steps["b"] = MaxSteps
    /\ memory = [a \in AgentKeys |-> <<>>]
    /\ stuck_prompts = [a \in AgentKeys |-> 0]
    /\ previous_state = [a \in AgentKeys |-> "IDLE"]
    /\ results = [a \in AgentKeys |-> <<>>]
    /\ pc = [a \in AgentKeys |-> "ready"]
    /\ outcome = [a \in AgentKeys |-> NoOutcome]
    /\ cleanups = [a \in AgentKeys |-> 0]
    /\ steps_run = [a \in AgentKeys |-> 0]
    /\ runs = [a \in AgentKeys |-> 0]
    /\ finished_in_run = [a \in AgentKeys |-> FALSE]
    /\ entry_step = [a \in AgentKeys |-> 0]

FlowNext ==
    \/ \E inp \in InputTexts : ExecuteCall(inp)
    \/ \E reply \in AskToolReplies : AskToolDone(reply)
    \/ \E toolOk \in BOOLEAN : CreatePlan(toolOk)
    \/ \E markOk \in BOOLEAN, getOk \in BOOLEAN : SelectStep(markOk, getOk)
    \/ \E markOk \in BOOLEAN : StepDone(markOk)
    \/ \E askOk \in BOOLEAN : Finalize(askOk)
    \/ SummaryDone
    \/ \E a \in AgentKeys :
          \/ LoopCheck(a)
          \/ \E r \in StepResults, fin \in BOOLEAN : StepReturn(a, r, <<>>, fin)
          \/ \E m \in StepErrors : StepRaise(a, m)
          \/ Cleanup(a)

SpecFlow == FlowInit /\ [][FlowNext]_vars

\* ------------------------------------------------------------------------
\* Specification of one agent driven by an outside caller
\* ------------------------------------------------------------------------
AgentInit ==
    /\ state \in [AgentKeys -> AgentState]
    /\ \A a \in AgentKeys \ SoloAgents : state[a] = "IDLE"
    /\ current_step = [a \in AgentKeys |-> 0]
    /\ max_steps \in [AgentKeys -> 0..MaxSteps]
    /\ \A a \in AgentKeys \ SoloAgents : max_steps[a] = MaxSteps
    /\ memory = [a \in AgentKeys |-> <<>>]
    /\ stuck_prompts = [a \in AgentKeys |-> 0]
    /\ previous_state = [a \in AgentKeys |-> "IDLE"]
    /\ results = [a \in AgentKeys |-> <<>>]
    /\ pc = [a \in AgentKeys |-> "ready"]
    /\ outcome = [a \in AgentKeys |-> NoOutcome]
    /\ cleanups = [a \in AgentKeys |-> 0]
    /\ steps_run = [a \in AgentKeys |-> 0]
    /\ runs = [a \in AgentKeys |-> 0]
    /\ finished_in_run = [a \in AgentKeys |-> FALSE]
    /\ entry_step = [a \in AgentKeys |-> 0]

Init ==
    /\ AgentInit /\ FlowIdle /\ LLMIdle /\ max_input_tokens = NoLimit /\ NoUpdates
    /\ FnIdle

Next ==
    \E a \in SoloAgents :
        \/ \E request \in Requests : RunCall(a, request)
        \/ LoopCheck(a)
        \/ \E r \in StepResults, added \in StepAdds(a), fin \in BOOLEAN :
              StepReturn(a, r, added, fin)
        \/ \E m \in StepErrors : StepRaise(a, m)
        \/ Cleanup(a)

Spec == Init /\ [][Next]_vars

\* ------------------------------------------------------------------------
\* Specification of update_memory called on an agent at rest
\* ------------------------------------------------------------------------
\* the agents as constructed with defaults, max_steps apart
AgentIdle ==
    /\ AgentInit
    /\ state = [a \in AgentKeys |-> "IDLE"]
    /\ max_steps = [a \in AgentKeys |-> MaxSteps]

MemInit ==
    /\ AgentIdle /\ FlowIdle /\ LLMIdle /\ max_input_tokens = NoLimit /\ NoUpdates
    /\ FnIdle

MemNext ==
    \E a \in SoloAgents, role \in Roles, content \in Contents :
        UpdateMemory(a, role, content)

SpecMemory == MemInit /\ [][MemNext]_vars

\* ------------------------------------------------------------------------
\* Specification of one caller of the gateway binding
\* ------------------------------------------------------------------------
LLMInit ==
    /\ AgentIdle /\ FlowIdle /\ NoUpdates /\ FnIdle
    /\ LLMIdle
    /\ max_input_tokens \in {NoLimit, MaxTokens, MaxBudget}

LLMNext ==
    \E c \in SoloCallers :
        \/ \E r \in GatewayRequests : CallStart(c, r)
        \/ Retry(c)
        \/ \E reply \in ProviderReplies(req[c]) : ProviderReturns(c, reply)

SpecLLM == LLMInit /\ [][LLMNext]_vars

\* ------------------------------------------------------------------------
\* Specification of two callers that share one gateway binding with a
\* ceiling: their calls of ask interleave at the awaits, and the provider
\* answers every request and reports exactly the estimated input tokens
\* ------------------------------------------------------------------------
SharedRequests ==
    {GatewayRequest("ask", stream, TRUE, TRUE, TRUE, 1, 0) : stream \in BOOLEAN}

SharedReplies(r) ==
    {reply \in ProviderReplies(r) :
        reply.kind = "ok" /\ reply.prompt = EstimatedInput(r)}

SharedInit ==
    /\ AgentIdle /\ FlowIdle /\ NoUpdates /\ FnIdle
    /\ LLMIdle
    /\ max_input_tokens \in {MaxTokens, MaxBudget}

SharedNext ==
    \E c \in GatewayCallers :
        \/ \E r \in SharedRequests : CallStart(c, r)
        \/ Retry(c)
        \/ \E reply \in SharedReplies(req[c]) : ProviderReturns(c, reply)

SpecShared == SharedInit /\ [][SharedNext]_vars

\* ------------------------------------------------------------------------
\* Specification of TokenCounter.count_image applied to one image item
\* ------------------------------------------------------------------------
CountImage ==
    /\ count_out = NoCount
    /\ count_out' = count_image(count_in)
    /\ UNCHANGED <<agentVars, flowVars, um_last, llmVars, count_in, render_in,
                   render_out, format_in, format_out>>

ImageInit ==
    /\ AgentIdle /\ FlowIdle /\ LLMIdle /\ max_input_tokens = NoLimit /\ NoUpdates
    /\ count_in \in ImageItems
    /\ count_out = NoCount
    /\ render_in = NoPlans /\ render_out = NoText
    /\ format_in = FormatInput(<<>>, FALSE) /\ format_out = NoOutcome

ImageNext == CountImage

SpecImage == ImageInit /\ [][ImageNext]_vars

\* ------------------------------------------------------------------------
\* Specification of the storage rendering of one stored plan
\* ------------------------------------------------------------------------
GeneratePlanText ==
    /\ render_out = NoText
    /\ render_out' = generate_plan_text_from_storage(render_in)
    /\ render_in' = PaddedStorage(render_in)
    /\ UNCHANGED <<agentVars, flowVars, um_last, llmVars, count_in, count_out,
                   format_in, format_out>>

RenderInit ==
    /\ AgentIdle /\ FlowIdle /\ LLMIdle /\ max_input_tokens = NoLimit /\ NoUpdates
    /\ count_in = ImageItem("", <<>>) /\ count_out = NoCount
    /\ render_in \in RenderedPlans
    /\ render_out = NoText
    /\ format_in = FormatInput(<<>>, FALSE) /\ format_out = NoOutcome

RenderNext == GeneratePlanText

SpecRender == RenderInit /\ [][RenderNext]_vars

\* ------------------------------------------------------------------------
\* Specification of format_messages applied to one batch
\* ------------------------------------------------------------------------
FormatMessages ==
    /\ format_out = NoOutcome
    /\ format_out' = format_messages(format_in.messages, format_in.supports_images)
    /\ format_in' = [format_in EXCEPT
                        !.messages = MessagesAfter(@, format_in.supports_images)]
    /\ UNCHANGED <<agentVars, flowVars, um_last, llmVars, count_in, count_out,
                   render_in, render_out>>

FormatInit ==
    /\ AgentIdle /\ FlowIdle /\ LLMIdle /\ max_input_tokens = NoLimit /\ NoUpdates
    /\ count_in = ImageItem("", <<>>) /\ count_out = NoCount
    /\ render_in = NoPlans /\ render_out = NoText
    /\ format_in \in {FormatInput(msgs, s) : msgs \in Batches, s \in BOOLEAN}
    /\ format_out = NoOutcome

FormatNext == FormatMessages

SpecFormat == FormatInit /\ [][FormatNext]_vars

\* ------------------------------------------------------------------------
\* Properties of BaseAgent.run (specification Spec)
\* ------------------------------------------------------------------------
LastLine(v) == v[Len(v)]

\* the run call has returned with the termination notice of the step cap
EndedAtCap(a) ==
    /\ pc[a] = "ready"
    /\ outcome[a].kind = "returned"
    /\ LastLine(outcome[a].value).kind = "Terminated"

\* C1: current_step never exceeds max_steps, and once a run that ended at
\* the step cap has returned, current_step is 0 and the state is IDLE
C1_StepCap ==
    \A a \in AgentKeys :
        /\ current_step[a] <= max_steps[a]
        /\ EndedAtCap(a) => current_step[a] = 0 /\ state[a] = "IDLE"

C1_Witness ==
    \E a \in SoloAgents :
        EndedAtCap(a) /\ steps_run[a] = max_steps[a] /\ max_steps[a] = MaxSteps

\* C2: a run call on an agent that is not IDLE fails with the error naming
\* the current state, runs no step, appends nothing to Memory and leaves
\* state and current_step as they were
C2_RejectedRunChangesNothing ==
    [][\A a \in SoloAgents :
          (pc[a] = "ready" /\ state[a] # "IDLE" /\ runs'[a] = runs[a] + 1)
             => /\ outcome'[a] = Raised(Err("RuntimeError", state[a]))
                /\ pc'[a] = "ready"
                /\ steps_run'[a] = 0
                /\ memory'[a] = memory[a]
                /\ state'[a] = state[a]
                /\ current_step'[a] = current_step[a]]_vars

C2_Witness ==
    \E a \in SoloAgents :
        /\ outcome[a].kind = "raised"
        /\ outcome[a].err = Err("RuntimeError", "FINISHED")
        /\ runs[a] = 2

\* C3: when an error raised by step() reaches the caller of run, the
\* agent's state is ERROR
C3_ErrorStateAfterStepRaise ==
    \A a \in AgentKeys :
        (pc[a] = "ready" /\ outcome[a].kind = "raised"
            /\ outcome[a].err.type = "Exception")
           => state[a] = "ERROR"

\* C4: every run call that has ended, by return, by an error of step() or
\* by rejection, has invoked the sandbox cleanup exactly once
C4_CleanupOncePerRun ==
    \A a \in AgentKeys :
        (pc[a] = "ready" /\ outcome[a].kind # "none") => cleanups[a] = 1

\* ------------------------------------------------------------------------
\* Properties of PlanningFlow.execute (specification SpecFlow)
\* ------------------------------------------------------------------------
\* C5: execute never raises; an exception that escapes to its top level is
\* returned as the text 'Execution failed: <message>'
C5_ExecuteContainsErrors ==
    /\ flow_outcome.kind # "raised"
    /\ escaped # "" => /\ fpc = "done"
                       /\ flow_outcome = ExecutionFailed(escaped)

C5_Witness ==
    /\ primary # NoAgent
    /\ plan_source = "none"
    /\ escaped = "tool error"
    /\ flow_outcome = ExecutionFailed("tool error")

\* C6: execute on an orchestrator without primary agent raises the
\* no-executor error to its caller
C6_NoPrimaryRaises ==
    (fpc = "done" /\ primary = NoAgent) => flow_outcome.kind = "raised"

\* the status of step i of a stored plan, a missing entry read as NOT_STARTED
EffectiveStatus(plan, i) ==
    IF i + 1 \in DOMAIN plan.step_statuses THEN plan.step_statuses[i + 1]
    ELSE NOT_STARTED

OpenSteps(pl) ==
    IF active_plan_id \notin DOMAIN pl THEN {}
    ELSE {i \in 0..(Len(pl[active_plan_id].steps) - 1) :
            EffectiveStatus(pl[active_plan_id], i) \in {NOT_STARTED, IN_PROGRESS}}

\* C7: step selection returns the lowest index whose status is NOT_STARTED
\* or IN_PROGRESS, and no current step only when every step of the active
\* plan is COMPLETED or BLOCKED
C7_SelectsLowestOpenStep ==
    [][(fpc = "select" /\ iters' = iters + 1)
          => /\ current_step_index' # NoIndex
                  => /\ current_step_index' \in OpenSteps(plans)
                     /\ \A j \in OpenSteps(plans) : current_step_index' <= j
             /\ current_step_index' = NoIndex
                  => (active_plan_id \in DOMAIN plans
                        => \A i \in 0..(Len(plans[active_plan_id].steps) - 1) :
                              EffectiveStatus(plans[active_plan_id], i)
                                 \in {COMPLETED, BLOCKED})]_vars

C7_Witness ==
    /\ fpc = "run"
    /\ current_step_index = 1
    /\ executed = <<1>>
    /\ plans[active_plan_id].step_statuses[1] = BLOCKED

IsPrefix(s, t) == Len(s) <= Len(t) /\ s = SubSeq(t, 1, Len(s))

NoStepError == \A i \in 1..Len(result) : result[i].kind # "step_error"

\* C8: with the default plan and executor runs that all succeed, execute
\* runs steps 0, 1, 2 in this order, each once, then finalizes once and
\* returns
C8_DefaultPlanRunsInOrder ==
    (plan_source = "default" /\ NoStepError)
       => /\ IsPrefix(executed, <<0, 1, 2>>)
          /\ finalized <= 1
          /\ finalized = 1 => executed = <<0, 1, 2>>
          /\ (fpc = "done" /\ flow_outcome.form = "Result") => finalized = 1

C8_Witness ==
    /\ plan_source = "default"
    /\ NoStepError
    /\ fpc = "done"
    /\ flow_outcome.form = "Result"
    /\ executed = <<0, 1, 2>>
    /\ finalized = 1

\* C9: when the executing agent set its state to FINISHED during a step's
\* run, the main loop stops after that step
C9_FinishedStopsLoop ==
    (fpc = "select" /\ executed # <<>>) => ~finished_in_run[executor]

\* C10: when the reply to the planning request yields no usable planning
\* tool call (and the planning tool works), the default plan is stored
\* under the active plan id with the title built from the input
C10_DefaultPlanOnNoUsableCall ==
    [][(fpc = "planning" /\ NoUsableCall(response))
          => \/ escaped' = "tool error"
             \/ /\ active_plan_id \in DOMAIN plans'
                /\ plans'[active_plan_id].steps = DefaultSteps
                /\ plans'[active_plan_id].title = DefaultTitle(input_text)
                /\ plans'[active_plan_id].step_statuses
                      = <<NOT_STARTED, NOT_STARTED, NOT_STARTED>>]_vars

\* C11: when the executor's run fails on a step, execute does not fail: the
\* line 'Error executing step N: <message>' is appended to the result, the
\* step is not marked COMPLETED, and the main loop goes on to its next pass
C11_FailedStepIsReported ==
    [][(fpc = "run" /\ fpc' # "run" /\ outcome[executor].kind = "raised")
          => /\ result' = Append(result, Part("step_error", current_step_index,
                                              outcome[executor].err.arg, <<>>))
             /\ plans' = plans
             /\ EffectiveStatus(plans'[active_plan_id], current_step_index) # COMPLETED
             /\ flow_outcome' = FlowNone
             /\ fpc' = "select"]_vars

C11_Witness ==
    /\ fpc = "select"
    /\ result # <<>>
    /\ result[Len(result)].kind = "step_error"
    /\ result[Len(result)].idx = current_step_index
    /\ result[Len(result)].msg \in StepErrors
    /\ EffectiveStatus(plans[active_plan_id], current_step_index) = IN_PROGRESS

\* the type of the step execute has just selected
SelectedType(pl, idx) == StepType(pl[active_plan_id].steps[idx + 1])

\* positions of executor_keys whose key is registered
RegisteredKeyPositions ==
    {i \in 1..Len(executor_keys) : executor_keys[i] \in agents}

\* C18: the executor of a step is the agent registered under the step's
\* type when there is one; otherwise the first entry of executor_keys that
\* is registered; otherwise the primary agent
C18_ExecutorPriority ==
    [][(fpc = "select" /\ fpc' = "run")
          => LET t == SelectedType(plans', current_step_index')
             IN executor' =
                  IF t \in agents THEN t
                  ELSE IF RegisteredKeyPositions # {}
                  THEN executor_keys[CHOOSE i \in RegisteredKeyPositions :
                                        \A j \in RegisteredKeyPositions : i <= j]
                  ELSE primary]_vars

C18_Witness ==
    /\ fpc = "run"
    /\ agents = {"a", "b"}
    /\ primary = "a"
    /\ executor_keys = <<"zz", "b">>
    /\ SelectedType(plans, current_step_index) = ""
    /\ executor = "b"

\* the other two cases of C18 are reached as well
C18_WitnessByType ==
    /\ fpc = "run"
    /\ executor_keys = <<"a", "b">>
    /\ SelectedType(plans, current_step_index) = "b"
    /\ executor = "b"

C18_WitnessPrimary ==
    /\ fpc = "run"
    /\ executor_keys = <<"zz">>
    /\ executor = primary

\* C19: finalization never raises; it returns the gateway's summary when
\* llm.ask succeeds, runs the primary agent for a summary only if llm.ask
\* failed, and returns the literal 'Plan completed. Error generating
\* summary.' only if both failed
C19_FinalizeNeverRaises ==
    /\ finalized >= 1 => flow_outcome.form \in {"", "Result"} /\ escaped = ""
    /\ fpc = "summary" => summary_ask = "failed"
    /\ (fpc = "done" /\ finalized >= 1) =>
          LET last == flow_outcome.parts[Len(flow_outcome.parts)]
          IN /\ flow_outcome.form = "Result"
             /\ summary_ask = "ok" => last.kind = "summary_llm"
             /\ summary_ask = "failed" =>
                   IF outcome[primary].kind = "returned"
                   THEN last.kind = "summary_agent" /\ last.text = outcome[primary].value
                   ELSE last.kind = "summary_error"
             /\ last.kind = "summary_error" =>
                   summary_ask = "failed" /\ outcome[primary].kind = "raised"

C19_Witness ==
    /\ fpc = "done"
    /\ summary_ask = "failed"
    /\ outcome[primary].kind = "raised"
    /\ flow_outcome.parts[Len(flow_outcome.parts)].kind = "summary_error"

C19_WitnessAgentSummary ==
    /\ fpc = "done"
    /\ summary_ask = "failed"
    /\ flow_outcome.form = "Result"
    /\ flow_outcome.parts[Len(flow_outcome.parts)].kind = "summary_agent"

C19_WitnessGatewaySummary ==
    /\ fpc = "done"
    /\ summary_ask = "ok"
    /\ flow_outcome.form = "Result"
    /\ flow_outcome.parts[Len(flow_outcome.parts)].kind = "summary_llm"

\* ------------------------------------------------------------------------
\* Properties of is_stuck and of state_context (specification Spec)
\* ------------------------------------------------------------------------
\* the earlier messages that repeat the last message as assistant
EarlierDuplicates(mem) ==
    {i \in 1..(Len(mem) - 1) :
        mem[i].role = "assistant" /\ mem[i].content = mem[Len(mem)].content}

StuckCondition(mem) ==
    /\ mem # <<>>
    /\ mem[Len(mem)].content # ""
    /\ Cardinality(EarlierDuplicates(mem)) >= duplicate_threshold

\* C16: is_stuck holds exactly when the last message has content and at
\* least duplicate_threshold earlier assistant messages have the same
\* content: run prepends the stuck prompt after a step exactly then; three
\* identical assistant messages trigger it, two do not
C16_StuckExactlyAtThreshold ==
    [][\A a \in AgentKeys :
          /\ (pc[a] = "step" /\ pc'[a] = "loop")
                => (stuck_prompts'[a] = stuck_prompts[a] + 1
                      <=> StuckCondition(memory'[a]))
          /\ is_stuck(memory'[a]) <=> StuckCondition(memory'[a])
          /\ is_stuck([i \in 1..3 |-> Msg("assistant", "x")])
          /\ ~is_stuck([i \in 1..2 |-> Msg("assistant", "x")])]_vars

C16_Witness ==
    /\ memory["a"] = [i \in 1..3 |-> Msg("assistant", "x")]
    /\ stuck_prompts["a"] = 1
    /\ steps_run["a"] >= 1

\* C17: after run has returned normally the state is IDLE again, whether
\* the loop ended at the step cap or because a step set FINISHED, so that
\* a further run is accepted
C17_StateRestoredAfterRun ==
    \A a \in AgentKeys :
        (pc[a] = "ready" /\ outcome[a].kind = "returned")
           => state[a] = "IDLE" /\ ~NotIdle(a)

C17_Witness ==
    /\ pc["a"] = "ready"
    /\ outcome["a"].kind = "returned"
    /\ finished_in_run["a"]
    /\ LastLine(outcome["a"].value).kind = "Step"
    /\ state["a"] = "IDLE"

\* a second run was accepted and returned as well
C17_WitnessRunAgain ==
    /\ runs["a"] = 2
    /\ cleanups["a"] = 1
    /\ steps_run["a"] >= 1
    /\ EndedAtCap("a")
    /\ state["a"] = "IDLE"

\* ------------------------------------------------------------------------
\* Properties of update_memory (specification SpecMemory)
\* ------------------------------------------------------------------------
\* C20: update_memory with a role outside user, system, assistant, tool
\* fails with the unsupported-role error and leaves Memory unchanged; with
\* a supported role it appends exactly one message of that role and content
\* at the end and leaves the earlier messages and their order unchanged
C20_UpdateMemory ==
    [][\A a \in AgentKeys :
          (um_last'[a] # um_last[a] \/ memory'[a] # memory[a]) =>
             LET u == um_last'[a]
             IN IF u.role \in {"user", "system", "assistant", "tool"}
                THEN /\ u.ok
                     /\ Len(memory'[a]) = Len(memory[a]) + 1
                     /\ SubSeq(memory'[a], 1, Len(memory[a])) = memory[a]
                     /\ memory'[a][Len(memory'[a])].role = u.role
                     /\ memory'[a][Len(memory'[a])].content = u.content
                ELSE /\ ~u.ok
                     /\ u.err = "Unsupported message role"
                     /\ memory'[a] = memory[a]]_vars

C20_Witness ==
    /\ Len(memory["a"]) = 2
    /\ memory["a"][1].role = "tool"
    /\ um_last["a"].role = "function"
    /\ ~um_last["a"].ok

C20_WitnessAppended ==
    /\ Len(memory["a"]) = 2
    /\ memory["a"][1] = Msg("user", "x")
    /\ memory["a"][2] = Msg("assistant", "")
    /\ um_last["a"] = [role |-> "assistant", content |-> "", ok |-> TRUE, err |-> ""]

\* ------------------------------------------------------------------------
\* Properties of the model gateway (specification SpecLLM)
\* ------------------------------------------------------------------------
\* the call's estimate did not fit the budget when the call was made
OverBudget(c) == in_at_call[c] + EstimatedInput(req[c]) > max_input_tokens

\* a call of ask or ask_tool on a binding with a ceiling, whose arguments
\* pass the checks made before the estimate is computed
BudgetedCall(c) ==
    /\ req[c].method \in {"ask", "ask_tool"}
    /\ max_input_tokens # NoLimit
    /\ req[c].choice_valid /\ req[c].valid

\* no provider call, both counters as they were, failing on the budget error
RefusedOnBudget(c) ==
    /\ provider_calls[c] = 0
    /\ total_input_tokens = in_at_call[c]
    /\ total_completion_tokens = out_at_call[c]
    /\ last_err[c].type = "TokenLimitExceeded"
    /\ lpc[c] = "ready" => call_outcome[c].kind = "raised"

C12_WitnessExactFit ==
    /\ BudgetedCall("c1")
    /\ in_at_call["c1"] > 0
    /\ in_at_call["c1"] + EstimatedInput(req["c1"]) = max_input_tokens
    /\ provider_calls["c1"] = 1
    /\ call_outcome["c1"].kind = "returned"

\* within budget, but the provider is not called: an offered tool is rejected
C12_WitnessToolRejected ==
    /\ BudgetedCall("c1")
    /\ ~OverBudget("c1")
    /\ ~req["c1"].tools_valid
    /\ lpc["c1"] = "ready"
    /\ provider_calls["c1"] = 0

\* C13: a call that fails on the token-budget error is not retried: its
\* body is attempted once and the budget error reaches the caller
C13_BudgetErrorNotRetried ==
    \A c \in GatewayCallers :
        last_err[c].type = "TokenLimitExceeded" =>
            /\ lpc[c] = "ready"
            /\ call_outcome[c] = Raised(last_err[c])
            /\ OverBudget(c) => attempt[c] = 1

\* the part of C14 that holds: no call makes more than six attempts; a call
\* of ask or ask_tool whose attempts all failed on the transport is not given
\* up before the sixth attempt, and an attempt the provider answers is the
\* last one and its result is returned
RetryUpToSix ==
    \A c \in GatewayCallers :
        /\ attempt[c] <= max_attempt_number
        /\ req[c].method \in {"ask", "ask_tool"} =>
              /\ (lpc[c] = "ready" /\ call_outcome[c].kind = "raised"
                     /\ transient[c] = attempt[c])
                    => attempt[c] = max_attempt_number
              /\ last_resp[c].kind = "ok"
                    => /\ lpc[c] = "ready"
                       /\ call_outcome[c] = Returned(<<"content">>)

FiveFailuresThenSuccess ==
    /\ req["c1"].method = "ask" /\ req["c1"].stream
    /\ attempt["c1"] = max_attempt_number
    /\ transient["c1"] = max_attempt_number - 1
    /\ call_outcome["c1"].kind = "returned"

\* C14: a call of ask (streaming or not) or ask_tool whose first five
\* attempts failed on the transport and whose sixth attempt is not failed by
\* the provider returns the successful result; no call makes more than six
\* attempts
C14_FiveFailuresThenSuccess ==
    \A c \in GatewayCallers :
        /\ attempt[c] <= max_attempt_number
        /\ (req[c].method \in {"ask", "ask_tool"}
              /\ transient[c] = max_attempt_number - 1
              /\ attempt[c] = max_attempt_number
              /\ lpc[c] = "ready"
              /\ last_resp[c].kind \notin {"error", "empty"})
            => call_outcome[c] = Returned(<<"content">>)

\* C15: a call that ends in success has increased the input counter by
\* the input tokens of one request and the completion counter by the
\* completion tokens of its response, whatever attempts failed before and
\* whatever the mode
C15_CountedOncePerSuccess ==
    \A c \in GatewayCallers :
        (lpc[c] = "ready" /\ call_outcome[c].kind = "returned"
            /\ last_resp[c].kind = "ok")
          => /\ total_input_tokens - in_at_call[c]
                  = (IF req[c].stream THEN EstimatedInput(req[c])
                     ELSE last_resp[c].prompt)
             /\ total_completion_tokens - out_at_call[c] = last_resp[c].completion

\* ------------------------------------------------------------------------
\* Further properties of BaseAgent.run (specification Spec)
\* ------------------------------------------------------------------------
\* C24: the termination notice is in the result log of a run that has
\* returned, and the cap reset was performed, exactly when the loop was left
\* because the step cap was reached; a run whose loop was left because a
\* step set FINISHED, on any step up to step number max_steps, has no notice
C24_NoticeOnlyAtCap ==
    \A a \in AgentKeys :
        (pc[a] = "ready" /\ outcome[a].kind = "returned") =>
            IF finished_in_run[a]
            THEN LastLine(outcome[a].value).kind # "Terminated"
            ELSE LastLine(outcome[a].value).kind = "Terminated" /\ current_step[a] = 0

\* ------------------------------------------------------------------------
\* Further properties of PlanningFlow.execute (specification SpecFlow)
\* ------------------------------------------------------------------------
\* C25: after step selection has returned index i the stored status of step
\* i is IN_PROGRESS, and after a successful executor run the stored status
\* of the executed step is COMPLETED, whether the planning tool's mark_step
\* command succeeded or failed
C25_StatusWrittenEitherWay ==
    [][/\ (fpc = "select" /\ fpc' = "run")
            => EffectiveStatus(plans'[active_plan_id], current_step_index') = IN_PROGRESS
       /\ (fpc = "run" /\ fpc' # "run" /\ outcome[executor].kind = "returned")
            => EffectiveStatus(plans'[active_plan_id], current_step_index) = COMPLETED]_vars

\* mark_step failed at selection: only the direct write leaves the list
\* shorter than the list of steps
C25_Witness ==
    /\ fpc = "run"
    /\ current_step_index = 0
    /\ plans[active_plan_id].step_statuses = <<IN_PROGRESS>>
    /\ Len(plans[active_plan_id].steps) > 1

\* mark_step failed after the run as well
C25_WitnessCompleted ==
    /\ fpc = "select"
    /\ result # <<>>
    /\ result[Len(result)].kind = "step_result"
    /\ plans[active_plan_id].step_statuses = <<COMPLETED>>
    /\ Len(plans[active_plan_id].steps) > 1

\* the agents whose run is in flight
InFlightRuns == {a \in AgentKeys : pc[a] # "ready"}

\* C26: plan steps execute strictly sequentially: while a step is being
\* executed no lower-indexed step is NOT_STARTED or IN_PROGRESS, the steps
\* executed before it are stored as COMPLETED, at most one executor run is
\* in flight, and none while the orchestrator's own model request is
C26_StrictlySequential ==
    /\ Cardinality(InFlightRuns) <= 1
    /\ InFlightRuns # {} =>
          /\ fpc \in {"run", "summary"}
          /\ InFlightRuns = {IF fpc = "run" THEN executor ELSE primary}
    /\ fpc = "run" =>
          /\ \A j \in 0..(current_step_index - 1) :
                EffectiveStatus(plans[active_plan_id], j) \notin {NOT_STARTED, IN_PROGRESS}
          /\ \A k \in 1..Len(executed) :
                executed[k] < current_step_index
                   => EffectiveStatus(plans[active_plan_id], executed[k]) = COMPLETED

C26_Witness ==
    /\ fpc = "run"
    /\ executed = <<0, 1>>
    /\ current_step_index = 1
    /\ pc[executor] = "step"
    /\ EffectiveStatus(plans[active_plan_id], 0) = COMPLETED
    /\ EffectiveStatus(plans[active_plan_id], 1) = IN_PROGRESS

\* C27: if after plan creation for a non-empty input no plan is stored under
\* active_plan_id, execute returns its failure report for that input
\* without selecting a step, running an executor or finalizing
C27_NoPlanNoExecution ==
    [][(fpc = "planning" /\ active_plan_id \notin DOMAIN plans')
          => /\ fpc' = "done"
             /\ flow_outcome' = IF escaped' = "" THEN FailedToCreate(input_text)
                                 ELSE ExecutionFailed(escaped')
             /\ input_text # <<>>
             /\ iters' = 0 /\ executed' = <<>> /\ finalized' = 0
             /\ \A a \in AgentKeys : runs'[a] = 0 /\ pc'[a] = "ready"]_vars

C27_Witness ==
    /\ fpc = "done"
    /\ flow_outcome = FailedToCreate(input_text)
    /\ input_text # <<>>
    /\ active_plan_id \notin DOMAIN plans
    /\ iters = 0 /\ executed = <<>> /\ finalized = 0

\* ------------------------------------------------------------------------
\* Further properties of the model gateway (specification SpecLLM)
\* ------------------------------------------------------------------------
\* C28: when all six attempts of a call have failed, no further attempt is
\* made and the call fails with the very error the last attempt raised
C28_LastErrorPropagates ==
    \A c \in GatewayCallers :
        /\ attempt[c] <= max_attempt_number
        /\ (attempt[c] = max_attempt_number /\ last_err[c] # NoErr)
              => /\ lpc[c] = "ready"
                 /\ call_outcome[c] = Raised(last_err[c])

\* C29: ask_tool with a tool_choice outside the allowed values fails after
\* a single attempt with the validation error, without retry and without
\* provider call
C29_InvalidToolChoiceIsFatal ==
    \A c \in GatewayCallers :
        (req[c].method = "ask_tool" /\ ~req[c].choice_valid) =>
            /\ attempt[c] = 1
            /\ lpc[c] = "ready"
            /\ call_outcome[c] = Raised(Err("ValueError", "Invalid tool_choice"))
            /\ provider_calls[c] = 0

\* C30: in tool mode an empty provider response makes ask_tool return the
\* 'no result' value on that attempt, without raising and without retry; in
\* the text modes an empty response or an empty stream is an error of the
\* attempt, retried until the sixth attempt, and never returned as a result
C30_EmptyResponse ==
    \A c \in GatewayCallers :
        last_resp[c].kind = "empty" =>
            IF req[c].method = "ask_tool"
            THEN /\ last_err[c] = NoErr
                 /\ lpc[c] = "ready"
                 /\ call_outcome[c] = Returned(<<"None">>)
            ELSE /\ last_err[c].type = "ValueError"
                 /\ call_outcome[c].kind # "returned"
                 /\ lpc[c] = (IF attempt[c] < max_attempt_number THEN "wait" ELSE "ready")
                 /\ attempt[c] = max_attempt_number => call_outcome[c].kind = "raised"

C30_Witness ==
    /\ req["c1"].method = "ask_tool"
    /\ attempt["c1"] = 2
    /\ last_resp["c1"].kind = "empty"
    /\ call_outcome["c1"] = Returned(<<"None">>)

C30_WitnessStream ==
    /\ req["c1"].method = "ask" /\ req["c1"].stream
    /\ attempt["c1"] = 2
    /\ last_resp["c1"].kind = "empty"
    /\ lpc["c1"] = "wait"

C30_WitnessExhausted ==
    /\ req["c1"].method = "ask" /\ ~req["c1"].stream
    /\ attempt["c1"] = max_attempt_number
    /\ last_resp["c1"].kind = "empty"
    /\ call_outcome["c1"].kind = "raised"

\* ------------------------------------------------------------------------
\* Properties of the storage rendering (specification SpecRender)
\* ------------------------------------------------------------------------
RenderedPlan == render_in[active_plan_id]
CompletedSteps ==
    {i \in 1..Len(RenderedPlan.steps) :
        EffectiveStatus(RenderedPlan, i - 1) = COMPLETED}

\* C21: the storage rendering reports the number of COMPLETED steps, the
\* number of steps and 100 * completed / total to one decimal (0 without
\* steps), and marks each step line with the mark of the step's status; steps
\* [a, b, c] with statuses [COMPLETED, IN_PROGRESS, NOT_STARTED] give
\* 'Progress: 1/3 steps completed (33.3%)' and the in-progress mark on step 1
C21_StorageRendering ==
    render_out.kind = "text" =>
        LET total == Len(RenderedPlan.steps)
            completed == Cardinality(CompletedSteps)
        IN  /\ \E t \in 0..1000 :
                  /\ IF total = 0
                     THEN t = 0
                     ELSE /\ 2 * (t * total - 1000 * completed) <= total
                          /\ 2 * (1000 * completed - t * total) <= total
                  /\ render_out.progress = ProgressLine(completed, total, t)
            /\ Len(render_out.lines) = total
            /\ \A i \in 1..total :
                  LET status == EffectiveStatus(RenderedPlan, i - 1)
                      mark == render_out.lines[i].mark
                  IN  /\ render_out.lines[i].index = i - 1
                      /\ render_out.lines[i].step = RenderedPlan.steps[i]
                      /\ mark = "[v]" <=> status = COMPLETED
                      /\ mark = "[>]" <=> status = IN_PROGRESS
                      /\ mark = "[!]" <=> status = BLOCKED
                      /\ mark = "[ ]" <=> status = NOT_STARTED
            /\ (/\ RenderedPlan.steps = <<"a", "b", "c">>
                /\ RenderedPlan.step_statuses = <<COMPLETED, IN_PROGRESS, NOT_STARTED>>)
                  => /\ render_out.progress = "Progress: 1/3 steps completed (33.3%)"
                     /\ render_out.lines[2].mark = "[>]"

C21_Witness ==
    /\ render_out.kind = "text"
    /\ RenderedPlan.steps = <<"a", "b", "c">>
    /\ RenderedPlan.step_statuses = <<COMPLETED, IN_PROGRESS, NOT_STARTED>>
    /\ render_out.progress = "Progress: 1/3 steps completed (33.3%)"

C21_WitnessRoundedUp ==
    /\ render_out.kind = "text"
    /\ RenderedPlan.step_statuses = <<COMPLETED, BLOCKED, COMPLETED>>
    /\ render_out.progress = "Progress: 2/3 steps completed (66.7%)"

C21_WitnessNoSteps ==
    /\ render_out.kind = "text"
    /\ RenderedPlan.steps = <<>>
    /\ render_out.progress = "Progress: 0/0 steps completed (0.0%)"

\* ------------------------------------------------------------------------
\* Properties of count_image (specification SpecImage)
\* ------------------------------------------------------------------------
\* C22: the image token estimate is 85 for detail low whatever the
\* dimensions, 765 for detail high at 1024 x 1024 or without dimensions, and
\* 1024 for detail medium without dimensions
C22_ImageTokenEstimate ==
    count_out # NoCount =>
        /\ count_in.detail = "low" => count_out = Tokens(85)
        /\ (count_in.detail = "high" /\ count_in.dimensions \in {<<>>, <<1024, 1024>>})
              => count_out = Tokens(765)
        /\ (count_in.detail = "medium" /\ count_in.dimensions = <<>>)
              => count_out = Tokens(1024)

C22_Witness ==
    /\ count_in = ImageItem("low", <<4096, 0>>)
    /\ count_out = Tokens(85)

C22_WitnessHigh ==
    /\ count_in = ImageItem("high", <<1024, 1024>>)
    /\ count_out = Tokens(765)

C22_WitnessHighUnknown ==
    /\ count_in = ImageItem("high", <<>>)
    /\ count_out = Tokens(765)

C22_WitnessMedium ==
    /\ count_in = ImageItem("medium", <<>>)
    /\ count_out = Tokens(1024)

\* ------------------------------------------------------------------------
\* Properties of format_messages (specification SpecFormat)
\* ------------------------------------------------------------------------
\* the batch holds dicts with a role only, one of them with a role outside
\* the recognized set
HasInvalidRole ==
    /\ \A i \in 1..Len(format_in.messages) :
          format_in.messages[i].type = "dict" /\ format_in.messages[i].role # ""
    /\ \E i \in 1..Len(format_in.messages) :
          format_in.messages[i].role \notin ROLE_VALUES

\* C23: format_messages fails with the invalid-role error for every batch
\* that contains a message whose role is outside the recognized set,
\* whatever else that message carries
C23_InvalidRoleRejected ==
    (format_out # NoOutcome /\ HasInvalidRole) =>
        format_out = Raised(Err("ValueError", "Invalid role"))

\* ------------------------------------------------------------------------
\* Further properties of BaseAgent.run (specification Spec)
\* ------------------------------------------------------------------------
\* C38: a run whose loop ends because step() set FINISHED before the cap
\* leaves current_step at the number of steps taken; a later run on the agent
\* starts counting from it and so executes at most max_steps minus the
\* carried-over count steps
C38_CounterCarriedOver ==
    [][\A a \in AgentKeys :
        /\ (/\ pc[a] = "loop" /\ pc'[a] = "cleanup"
            /\ state[a] = "FINISHED" /\ current_step[a] < max_steps[a])
              => current_step'[a] = entry_step[a] + steps_run[a]
        /\ (pc[a] = "ready" /\ pc'[a] = "loop")
              => /\ current_step'[a] = current_step[a]
                 /\ entry_step'[a] = current_step[a]
        /\ pc'[a] # "ready"
              => /\ current_step'[a] =
                       entry_step'[a] + steps_run'[a] + (IF pc'[a] = "step" THEN 1 ELSE 0)
                    \/ (pc'[a] = "cleanup" /\ current_step'[a] = 0)
                 /\ steps_run'[a] <= max_steps'[a] - entry_step'[a]]_vars

C38_Witness ==
    /\ runs["a"] = 2
    /\ entry_step["a"] = 1
    /\ max_steps["a"] = 2
    /\ steps_run["a"] = 1
    /\ pc["a"] = "cleanup"
    /\ LastLine(results["a"]).kind = "Terminated"

C38_WitnessFirstRun ==
    /\ runs["a"] = 1
    /\ pc["a"] = "ready"
    /\ outcome["a"].kind = "returned"
    /\ finished_in_run["a"]
    /\ current_step["a"] = 1
    /\ max_steps["a"] = 2

C39_WitnessCarried ==
    /\ outcome["a"].kind = "returned"
    /\ steps_run["a"] = 0
    /\ max_steps["a"] = 2
    /\ entry_step["a"] = 2
    /\ outcome["a"].value = <<TerminatedLine(2)>>

\* ------------------------------------------------------------------------
\* Further properties of PlanningFlow (specification SpecFlow)
\* ------------------------------------------------------------------------
\* C31: after every status mutation execute performs on the active plan,
\* through the planning tool or through a direct-storage fallback,
\* step_statuses has the same length as steps
C31_StatusLengthKept ==
    [][(/\ active_plan_id \in DOMAIN plans
        /\ active_plan_id \in DOMAIN plans'
        /\ plans'[active_plan_id].step_statuses # plans[active_plan_id].step_statuses)
          => Len(plans'[active_plan_id].step_statuses) = Len(plans'[active_plan_id].steps)]_vars

\* C34: every execute call eventually returns when every executor run and
\* gateway call ends, also when the executor's run fails on every invocation
\* for some step. execute has no pass counter, so it returns only if each
\* pass that goes back to the selection leaves fewer open steps than it found
C34_EveryPassMakesProgress ==
    [][(fpc = "run" /\ fpc' = "select")
          => Cardinality(OpenSteps(plans')) < Cardinality(OpenSteps(plans))]_vars

\* the statuses of a plan created with every step NOT_STARTED and run by
\* execute: COMPLETED up to some step, which is IN_PROGRESS or NOT_STARTED
\* if there is one, and NOT_STARTED beyond it
InOrder(pl) ==
    /\ active_plan_id \in DOMAIN pl
    /\ LET plan == pl[active_plan_id]
           n == Len(plan.steps)
       IN  /\ Len(plan.step_statuses) = n
           /\ \E k \in 0..n :
                 /\ \A i \in 0..(k - 1) : EffectiveStatus(plan, i) = COMPLETED
                 /\ k < n => EffectiveStatus(plan, k) \in {IN_PROGRESS, NOT_STARTED}
                 /\ \A i \in (k + 1)..(n - 1) : EffectiveStatus(plan, i) = NOT_STARTED

StepsInProgress(pl) ==
    {i \in 0..(Len(pl[active_plan_id].steps) - 1) :
        EffectiveStatus(pl[active_plan_id], i) = IN_PROGRESS}

\* C37: during execute on a plan created with every step NOT_STARTED, at
\* most one step is IN_PROGRESS, every step below the current step index is
\* COMPLETED or BLOCKED, and a COMPLETED step never changes status again
C37_OneStepInProgress ==
    [][(InOrder(plans) /\ fpc \in {"select", "run", "finalize", "summary"})
          => /\ InOrder(plans')
             /\ Cardinality(StepsInProgress(plans')) <= 1
             /\ \A i \in 0..(current_step_index' - 1) :
                   EffectiveStatus(plans'[active_plan_id], i) \in {COMPLETED, BLOCKED}
             /\ \A i \in 0..(Len(plans[active_plan_id].steps) - 1) :
                   EffectiveStatus(plans[active_plan_id], i) = COMPLETED
                      => EffectiveStatus(plans'[active_plan_id], i) = COMPLETED]_vars

C37_Witness ==
    /\ plan_source = "default"
    /\ fpc = "run"
    /\ executed = <<0, 1, 1>>
    /\ current_step_index = 1
    /\ plans[active_plan_id].step_statuses = <<COMPLETED, IN_PROGRESS, NOT_STARTED>>

\* ------------------------------------------------------------------------
\* Further properties of the storage rendering (specification SpecRender)
\* ------------------------------------------------------------------------
\* C32: in the storage rendering the second line is the character '='
\* repeated as many times as the first line 'Plan: <title> (ID: <plan_id>)'
\* has characters
C32_UnderlineMatchesFirstLine ==
    render_out.kind = "text" =>
        render_out.underline =
            Repeat("=", Len("Plan: " \o RenderedPlan.title \o " (ID: "
                              \o active_plan_id \o ")"))

\* ------------------------------------------------------------------------
\* Further properties of count_image (specification SpecImage)
\* ------------------------------------------------------------------------
\* C33: an image whose detail label is none of low, high and medium gets
\* the estimate of a medium-detail image with the same dimensions, known or
\* unknown
C33_OtherLabelIsMedium ==
    (count_out # NoCount /\ count_in.detail \notin {"", "low", "high", "medium"})
        => count_out = count_image(ImageItem("medium", count_in.dimensions))

\* ------------------------------------------------------------------------
\* The budget state across attempts (specification SpecLLM)
\* ------------------------------------------------------------------------
\* every attempt the call has made so far ended in a retryable error
OnlyFailedAttempts(c) ==
    /\ attempt[c] >= 1
    /\ retry_if_exception_type(last_err[c])
    /\ lpc[c] = "wait" \/ (lpc[c] = "ready" /\ call_outcome[c].kind = "raised")

\* C35: an attempt of a gateway call that ends in a retryable error leaves
\* total_input_tokens and total_completion_tokens as they were before it, so
\* a request that passed the budget check on its first attempt passes it on
\* every retry
C35_FailedAttemptKeepsBudget ==
    \A c \in SoloCallers :
        OnlyFailedAttempts(c) =>
            /\ total_input_tokens = in_at_call[c]
            /\ total_completion_tokens = out_at_call[c]
            /\ provider_calls[c] >= 1 => last_err[c].type # "TokenLimitExceeded"

\* ------------------------------------------------------------------------
\* The ceiling of a shared binding (specification SpecShared)
\* ------------------------------------------------------------------------
\* C36: on a binding with a configured ceiling total_input_tokens never
\* exceeds max_input_tokens, for streaming and non-streaming calls and for
\* any interleaving, at their awaits, of calls that share the binding
C36_NeverOverCeiling ==
    max_input_tokens # NoLimit => total_input_tokens <= max_input_tokens

====
